---- MODULE Spec2Model ----
(***************************************************************************)
(* A model of the sharing primitives of thread-share:                      *)
(*   ArcThreadShare<T>        src/src/atomic.rs  (AtomicPtr<T> + Box)      *)
(*   ThreadShare<T>           src/src/core.rs    (RwLock + Mutex/Condvar)  *)
(*   SimpleShare<T>           src/src/core.rs    (Mutex)                   *)
(*   ArcThreadShareLocked<T>  src/src/locked.rs  (RwLock)                  *)
(* Each part has its own variables and its own specification; a            *)
(* specification leaves the variables of the other parts unchanged.        *)
(***************************************************************************)
EXTENDS Integers, FiniteSets, Sequences, TLC

(***************************************************************************)
(* Bounds                                                                  *)
(***************************************************************************)
\* threads that hold a clone of one ArcThreadShare
AtomicThreads == 2
\* calls each of them makes
AtomicOps == 2
\* update() calls each thread makes when update() is the only method called
UpdateOps == 3
\* largest value passed to set(), largest delta passed to add(), and largest
\* value a read of freed memory may produce
MaxVal == 1

\* writer threads of the lock-based counter, and update() calls each makes
LockWriters == 2
LockOps == 2
\* threads that call set()/update() on a ThreadShare with waiters, calls each
\* makes, and threads that call wait_for_change*() and then get()
NotifySetters == 1
NotifyOps == 2
NotifyWaiters == 2
MaxHandles == 3
\* set() calls the ordered writer makes (set(1) .. set(OrderSets)), and get()
\* calls the reader makes meanwhile
OrderSets == 3
OrderGets == 3
\* threads that call methods of one WorkerManager, and calls each makes
WmCallers == 2
WmOps == 2
\* threads one EnhancedThreadShare / ThreadManager spawns, and join_all()
\* calls made on it
MaxSpawns == 3
MaxJoins == 2
\* threads that call get() on the lock-based value again and again
FairReaders == 2
\* calls the writer makes meanwhile
FairOps == 1
\* threads that use the guard API of one ArcThreadShareLocked, and calls each makes
GuardThreads == 2
GuardOps == 2
\* clones of an ArcThreadShare handle kept aside at one time
MaxClones == 2
\* longest text passed to from_json()
JsonLen == 2

ATh == 1..AtomicThreads
Vals == 0..MaxVal
Deltas == 1..MaxVal
\* Heap addresses.  At any time one box is in the slot and every thread holds
\* at most one other box (a candidate, or a removed box it has not freed yet),
\* so Box::new never runs out of addresses; the allocator is free to hand out
\* any address that is not in use, a just freed one included.
Addrs == 1..(AtomicThreads + 1)
Null == 0

VARIABLES
    \* ---- ArcThreadShare (atomic.rs) ----
    atomic_data,     \* ArcThreadShare.data: the AtomicPtr slot (an address or Null)
    heap,            \* address -> the T stored there
    allocated,       \* addresses the allocator has handed out and not got back
    apc,             \* thread -> position in the method it runs
    frame,           \* thread -> the locals of the method it runs
    ops_left,        \* thread -> calls it still has to make
    all_increment,   \* every call made so far was increment()
    \* history of the heap, kept to state the reclamation claims
    removed,         \* addresses taken out of the slot by a swap and not freed yet
    freed_twice,     \* a free of an address that was not allocated happened
    freed_wrong,     \* a free of an address the freeing call had not removed happened
    use_after_free,  \* methods that dereferenced an address that was not allocated
    clones,          \* clones of the handle kept aside, besides the threads' own
    overlap,         \* thread -> what calls of set/increment/add on other threads
                     \* did while the thread was inside update()/write(): "overlapped"
                     \* one was in progress, "completed" one returned, "freed" one
                     \* freed the Box the thread had loaded, "reused" Box::new
                     \* handed out the address of that Box again
    observed,        \* threads whose candidate Box of the loop iteration they are
                     \* in was read by a get()/read() of another thread
    \* ---- ThreadShare, SimpleShare (core.rs), ArcThreadShareLocked (locked.rs) ----
    kind,            \* which of the three types the shared value is
    data,            \* the T inside the RwLock<T> / Mutex<T>
    lock_writer,     \* who holds the RwLock for writing, or the Mutex (NoThread: nobody)
    lock_readers,    \* who holds the RwLock for reading
    receiver,        \* who holds ThreadShare.receiver, the Mutex<()> of the condvar
    parked,          \* threads blocked inside ThreadShare.condvar
    lpc,             \* thread -> index of its next statement in the method (0: no call)
    call,            \* thread -> the method it runs and that method's locals
    calls_left,      \* thread -> calls it still has to make
    timed_out,       \* thread -> what its wait call returned: "true", "false", or
                     \* "none" while it has not returned
    got,             \* thread -> what its last get() returned
    \* history, kept to state the notification claims
    ver,             \* number of writes made to data so far
    heard,           \* waiters that were inside a wait call, its timeout not yet
                     \* expired, when a notify_all ran
    later_heard,     \* the waiters of `heard` for which that notify_all came from a
                     \* set()/update() called after they had entered their wait call
    woke_seq,        \* waiter -> number of the write whose notify_all woke it (0: none)
    seen_ver,        \* thread -> number of writes made when its last get() read data
    late_waiter,     \* the waiter whose wait call was the first one and began after
                     \* a set()/update() had returned (NoThread: there is none)
    tried,           \* thread -> what its last try_get_ref()/try_get_mut() returned:
                     \* "Some", "None", or "none" if it has made no such call
    poisoned,        \* the std Mutex of SimpleShare is poisoned
    panicked,        \* threads that a panic has ended
    \* ---- handles and what they share (clone transparency) ----
    arc,             \* handle -> the shared cell its Arc points to (0: handle not made yet)
    parent,          \* handle -> the handle it was cloned from (0: made by new())
    cell,            \* cell -> its content: the value (lock-based types) or the
                     \* address in the AtomicPtr (ArcThreadShare)
    boxes,           \* address -> value of the Box allocated there (-1: not allocated)
    last_set,        \* root handle -> the value of the last set() in its family, if
                     \* no other mutation followed it (-1 otherwise)
    set_by,          \* root handle -> the handle that set() was made through
    got_by,          \* handle -> what its get() returned, if no mutation in its
                     \* family followed it (-1 otherwise)
    exported,        \* handle -> how it was made from a ThreadShare handle `from`:
                     \* "as_arc", "as_arc_locked", or "none" (made by new() or clone())
    notified,        \* the last call ran condvar.notify_all()
    returned,        \* if the last call was from_json(): the handle, the text
                     \* passed and what the call returned
    \* ---- WorkerManager (worker_manager.rs) ----
    wm_threads,      \* WorkerManager.threads: the names that are keys of the map
    paused_workers,  \* WorkerManager.paused_workers: the names that are keys of the map
    wm_mutex,        \* the caller that holds the Mutex of `threads` (0: nobody)
    wm_pc,           \* caller -> the statement it is at in the method it runs
    wm_call,         \* caller -> the method it runs and the name passed
    wm_left,         \* caller -> calls it still has to make
    wm_result,       \* caller -> the last call it made and what that call returned
    adds_ok,         \* name -> add_worker calls that returned Ok since the name was
                     \* last taken out of `threads`
    \* ---- EnhancedThreadShare (enhanced.rs), ThreadManager (thread_pool.rs) ----
    threads_map,     \* the field `threads`: name -> the thread whose JoinHandle is
                     \* stored under it (0: the name is not a key)
    thread_state,    \* thread -> "unborn", "running", "finished" or "panicked"
    detached,        \* threads whose JoinHandle was dropped without a join
    main_pc,         \* the statement the owner of the object is at
    main_call,       \* the locals of the method it runs: `name`, the `handle` of
                     \* the thread just spawned, the Vec `thread_handles`
    main_result,     \* the last method that returned and what it returned
    spawned_before,  \* threads spawned before the last join_all() was called
    joins_left       \* join_all() calls the owner may still make

atomicVars == <<atomic_data, heap, allocated, apc, frame, ops_left, all_increment,
                removed, freed_twice, freed_wrong, use_after_free, clones,
                observed, overlap>>

handleVars == <<arc, parent, cell, boxes, last_set, set_by, got_by, exported,
                notified, returned>>
lockVars == <<kind, data, lock_writer, lock_readers, receiver, parked, lpc, call,
              calls_left, timed_out, got, ver, heard, later_heard, woke_seq, seen_ver,
              late_waiter, tried, poisoned, panicked>>

workerVars == <<wm_threads, paused_workers, wm_mutex, wm_pc, wm_call, wm_left,
                wm_result, adds_ok>>
spawnVars == <<threads_map, thread_state, detached, main_pc, main_call, main_result,
               spawned_before, joins_left>>
managerVars == <<workerVars, spawnVars>>

vars == <<atomicVars, lockVars, handleVars, managerVars>>

\* The locals of a method: `ptr`, `current_value`, `new_ptr`, `old_ptr` as in
\* atomic.rs; `op` names the loop (increment or add) and `delta` is its addend.
NoFrame == [op |-> "none", ptr |-> Null, current_value |-> 0, delta |-> 0,
            new_ptr |-> Null, old_ptr |-> Null]

(***************************************************************************)
(* ArcThreadShare::new(0), then one clone per thread                       *)
(***************************************************************************)
AtomicStart ==
    /\ atomic_data = 1
    /\ heap = [a \in Addrs |-> 0]
    /\ allocated = {1}
    /\ apc = [t \in ATh |-> "idle"]
    /\ frame = [t \in ATh |-> NoFrame]
    /\ ops_left = [t \in ATh |-> AtomicOps]
    /\ all_increment = TRUE
    /\ removed = {}
    /\ freed_twice = FALSE
    /\ freed_wrong = FALSE
    /\ use_after_free = {}
    /\ clones = 0
    /\ observed = {}
    /\ overlap = [t \in ATh |-> {}]

\* a thread is inside update()/write(), between its load and the end of f
InClosure(u) == apc[u] \in {"closure_deref", "closure_store"}

\* a thread is inside set(), increment() or add()
InSwapCall(u) ==
    apc[u] \in {"set_swap", "set_free", "cas_load", "cas_read", "cas_alloc",
                "cas_exchange", "cas_free_old", "cas_free_new"}

\* thread t begins a call of set/increment/add
Overlaps(t) ==
    overlap' = [u \in ATh |-> IF u # t /\ InClosure(u)
                              THEN overlap[u] \cup {"overlapped"} ELSE overlap[u]]

\* thread t returns from set/increment/add, having freed the Box at p
Completes(t, p) ==
    overlap' = [u \in ATh |->
                  IF u # t /\ InClosure(u)
                  THEN overlap[u] \cup {"overlapped", "completed"}
                                  \cup (IF frame[u].ptr = p THEN {"freed"} ELSE {})
                  ELSE overlap[u]]

\* unsafe { *p }: the value at p.  When p is not allocated the read is undefined
\* behaviour: it may produce any value.
Deref(p) == IF p \in allocated THEN {heap[p]} ELSE Vals

\* Box::into_raw(Box::new(v)): the allocator picks any address not in use.
BoxNew(t, v) ==
    \E a \in Addrs \ allocated :
        /\ allocated' = allocated \cup {a}
        /\ heap' = [heap EXCEPT ![a] = v]
        /\ frame' = [frame EXCEPT ![t].new_ptr = a]
        /\ overlap' = [u \in ATh |->
                          IF u # t /\ InClosure(u)
                          THEN overlap[u] \cup {"overlapped"}
                                          \cup (IF frame[u].ptr = a THEN {"reused"} ELSE {})
                          ELSE overlap[u]]

\* drop(Box::from_raw(p)): the address goes back to the allocator.  What the
\* memory holds afterwards is not defined (see Deref); the model clears it.
BoxDrop(p) ==
    /\ allocated' = allocated \ {p}
    /\ heap' = [heap EXCEPT ![p] = 0]
    /\ freed_twice' = (freed_twice \/ p \notin allocated)

\* the method returns: its locals are gone
Return(t) ==
    /\ apc' = [apc EXCEPT ![t] = "idle"]
    /\ frame' = [frame EXCEPT ![t] = NoFrame]
    /\ ops_left' = [ops_left EXCEPT ![t] = @ - 1]

CanCall(t) == apc[t] = "idle" /\ ops_left[t] > 0

\* the threads other than u whose loop iteration has allocated the Box at p as
\* its candidate and has not freed it or installed it
Candidates(p, u) ==
    {t \in ATh \ {u} : apc[t] \in {"cas_exchange", "cas_free_new"} /\ frame[t].new_ptr = p}

\* ---- get (atomic.rs 346-352) -------------------------------------------
\* let ptr = self.data.load(Ordering::Acquire);
GetLoad(t) ==
    /\ CanCall(t)
    /\ frame' = [frame EXCEPT ![t].ptr = atomic_data]
    /\ apc' = [apc EXCEPT ![t] = "get_deref"]
    /\ all_increment' = FALSE
    /\ UNCHANGED <<atomic_data, heap, allocated, ops_left,
                   removed, freed_twice, freed_wrong, use_after_free>>
    /\ UNCHANGED <<overlap, observed, clones, lockVars, handleVars, managerVars>>

\* unsafe { (*ptr).clone() }.  get() does not test ptr: on the null pointer the
\* dereference is undefined behaviour, it may bring the process down or go on.
GetDeref(t) ==
    /\ apc[t] = "get_deref"
    /\ use_after_free' = IF frame[t].ptr \in allocated THEN use_after_free
                         ELSE use_after_free \cup {"get"}
    /\ \E outcome \in IF frame[t].ptr = Null THEN {"returns", "crashes"} ELSE {"returns"} :
          IF outcome = "returns"
          THEN Return(t)
          ELSE /\ apc' = [u \in ATh |-> "crashed"]
               /\ UNCHANGED <<frame, ops_left>>
    /\ UNCHANGED <<atomic_data, heap, allocated, all_increment,
                   removed, freed_twice, freed_wrong>>
    /\ observed' = observed \cup Candidates(frame[t].ptr, t)
    /\ UNCHANGED <<overlap, clones, lockVars, handleVars, managerVars>>

\* ---- set (atomic.rs 372-384) -------------------------------------------
\* let new_ptr = Box::into_raw(Box::new(new_data));
SetAlloc(t, new_data) ==
    /\ CanCall(t)
    /\ BoxNew(t, new_data)
    /\ apc' = [apc EXCEPT ![t] = "set_swap"]
    /\ all_increment' = FALSE
    /\ UNCHANGED <<atomic_data, ops_left,
                   removed, freed_twice, freed_wrong, use_after_free>>
    /\ UNCHANGED <<observed, clones, lockVars, handleVars, managerVars>>

SetSwap_Takes(t) ==
    /\ apc[t] = "set_swap"
    /\ frame' = [frame EXCEPT ![t].old_ptr = atomic_data]
    /\ atomic_data' = Null
    /\ removed' = removed \cup ({atomic_data} \ {Null})
    /\ apc' = [apc EXCEPT ![t] = "set_free"]
    /\ UNCHANGED <<heap, allocated, ops_left, all_increment,
                   freed_twice, freed_wrong, use_after_free>>
    /\ UNCHANGED <<overlap, observed, clones, lockVars, handleVars, managerVars>>

\* let old_ptr = self.data.swap(new_ptr, Ordering::AcqRel);
SetSwap(t) ==
    /\ apc[t] = "set_swap"
    /\ frame' = [frame EXCEPT ![t].old_ptr = atomic_data]
    /\ atomic_data' = frame[t].new_ptr
    /\ removed' = removed \cup ({atomic_data} \ {Null})
    /\ apc' = [apc EXCEPT ![t] = "set_free"]
    /\ UNCHANGED <<heap, allocated, ops_left, all_increment,
                   freed_twice, freed_wrong, use_after_free>>
    /\ UNCHANGED <<overlap, observed, clones, lockVars, handleVars, managerVars>>

SetFree_Leaks(t) ==
    /\ apc[t] = "set_free"
    /\ Return(t)
    /\ UNCHANGED <<allocated, heap, freed_twice, freed_wrong, removed>>
    /\ UNCHANGED <<atomic_data, all_increment, use_after_free>>
    /\ Completes(t, frame[t].old_ptr)
    /\ UNCHANGED <<observed, clones, lockVars, handleVars, managerVars>>

\* if !old_ptr.is_null() { drop(Box::from_raw(old_ptr)); }
SetFree(t) ==
    /\ apc[t] = "set_free"
    /\ IF frame[t].old_ptr # Null
       THEN /\ BoxDrop(frame[t].old_ptr)
            /\ freed_wrong' = (freed_wrong \/ frame[t].old_ptr \notin removed)
            /\ removed' = removed \ {frame[t].old_ptr}
       ELSE UNCHANGED <<allocated, heap, freed_twice, freed_wrong, removed>>
    /\ Return(t)
    /\ UNCHANGED <<atomic_data, all_increment, use_after_free>>
    /\ Completes(t, frame[t].old_ptr)
    /\ UNCHANGED <<observed, clones, lockVars, handleVars, managerVars>>

\* ---- increment (atomic.rs 450-483) and add (atomic.rs 486-519) ---------
\* The two loops are the same statement for statement; they differ in the
\* addend, T::from(1u8) in increment and the argument `value` in add.
\* let ptr = self.data.load(Ordering::Acquire); if ptr.is_null() { break; }
CasLoad(t, op, value) ==
    /\ IF atomic_data = Null
       THEN Return(t)
       ELSE /\ frame' = [frame EXCEPT ![t].op = op, ![t].delta = value,
                                      ![t].ptr = atomic_data]
            /\ apc' = [apc EXCEPT ![t] = "cas_read"]
            /\ UNCHANGED ops_left
    /\ UNCHANGED <<atomic_data, heap, allocated,
                   removed, freed_twice, freed_wrong, use_after_free>>
    /\ UNCHANGED <<observed, clones, lockVars, handleVars, managerVars>>

\* increment() is called and runs to the load of its first iteration
Increment(t) ==
    /\ CanCall(t)
    /\ CasLoad(t, "increment", 1)
    /\ UNCHANGED all_increment
    /\ Overlaps(t)

\* add(value) is called and runs to the load of its first iteration
Add(t, value) ==
    /\ CanCall(t)
    /\ CasLoad(t, "add", value)
    /\ all_increment' = FALSE
    /\ Overlaps(t)

\* a later iteration: the loop goes round to its load
CasRetry(t) ==
    /\ apc[t] = "cas_load"
    /\ CasLoad(t, frame[t].op, frame[t].delta)
    /\ UNCHANGED all_increment
    /\ UNCHANGED <<overlap, observed, clones, lockVars, handleVars, managerVars>>

\* let current_value = unsafe { *ptr };
CasRead(t) ==
    /\ apc[t] = "cas_read"
    /\ \E v \in Deref(frame[t].ptr) : frame' = [frame EXCEPT ![t].current_value = v]
    /\ use_after_free' = IF frame[t].ptr \in allocated THEN use_after_free
                         ELSE use_after_free \cup {frame[t].op}
    /\ apc' = [apc EXCEPT ![t] = "cas_alloc"]
    /\ UNCHANGED <<atomic_data, heap, allocated, ops_left, all_increment,
                   removed, freed_twice, freed_wrong>>
    /\ UNCHANGED <<overlap, observed, clones, lockVars, handleVars, managerVars>>

\* let new_value = current_value + delta;
\* let new_ptr = Box::into_raw(Box::new(new_value));
CasAlloc(t) ==
    /\ apc[t] = "cas_alloc"
    /\ BoxNew(t, frame[t].current_value + frame[t].delta)
    /\ apc' = [apc EXCEPT ![t] = "cas_exchange"]
    /\ UNCHANGED <<atomic_data, ops_left, all_increment,
                   removed, freed_twice, freed_wrong, use_after_free>>
    /\ UNCHANGED <<observed, clones, lockVars, handleVars, managerVars>>

\* A compare-exchange that may fail although the slot holds `ptr`.
CasExchange_Weak(t) ==
    /\ apc[t] = "cas_exchange"
    /\ apc' = [apc EXCEPT ![t] = "cas_free_new"]
    /\ UNCHANGED <<atomic_data, removed>>
    /\ UNCHANGED <<heap, allocated, frame, ops_left, all_increment,
                   freed_twice, freed_wrong, use_after_free>>
    /\ UNCHANGED <<overlap, observed, clones, lockVars, handleVars, managerVars>>

\* self.data.compare_exchange(ptr, new_ptr, Ordering::AcqRel, Ordering::Acquire)
CasExchange(t) ==
    /\ apc[t] = "cas_exchange"
    /\ IF atomic_data = frame[t].ptr
       THEN /\ atomic_data' = frame[t].new_ptr
            /\ removed' = removed \cup {atomic_data}
            /\ apc' = [apc EXCEPT ![t] = "cas_free_old"]
       ELSE /\ apc' = [apc EXCEPT ![t] = "cas_free_new"]
            /\ UNCHANGED <<atomic_data, removed>>
    /\ UNCHANGED <<heap, allocated, frame, ops_left, all_increment,
                   freed_twice, freed_wrong, use_after_free>>
    /\ observed' = IF atomic_data = frame[t].ptr THEN observed \ {t} ELSE observed
    /\ UNCHANGED <<overlap, clones, lockVars, handleVars, managerVars>>

\* A slip in the success arm: the candidate is dropped instead of the old box.
CasFreeOld_DropsCandidate(t) ==
    /\ apc[t] = "cas_free_old"
    /\ BoxDrop(frame[t].new_ptr)
    /\ freed_wrong' = (freed_wrong \/ frame[t].new_ptr \notin removed)
    /\ removed' = removed \ {frame[t].new_ptr}
    /\ Return(t)
    /\ UNCHANGED <<atomic_data, all_increment, use_after_free>>
    /\ Completes(t, frame[t].new_ptr)
    /\ UNCHANGED <<observed, clones, lockVars, handleVars, managerVars>>

\* Ok(_) => { drop(Box::from_raw(ptr)); break; }
CasFreeOld(t) ==
    /\ apc[t] = "cas_free_old"
    /\ BoxDrop(frame[t].ptr)
    /\ freed_wrong' = (freed_wrong \/ frame[t].ptr \notin removed)
    /\ removed' = removed \ {frame[t].ptr}
    /\ Return(t)
    /\ UNCHANGED <<atomic_data, all_increment, use_after_free>>
    /\ Completes(t, frame[t].ptr)
    /\ UNCHANGED <<observed, clones, lockVars, handleVars, managerVars>>

\* Err(_) => { drop(Box::from_raw(new_ptr)); } and the loop goes round
CasFreeNew(t) ==
    /\ apc[t] = "cas_free_new"
    /\ BoxDrop(frame[t].new_ptr)
    /\ freed_wrong' = (freed_wrong \/ frame[t].new_ptr \in removed
                                   \/ frame[t].new_ptr = atomic_data)
    /\ frame' = [frame EXCEPT ![t].ptr = Null, ![t].current_value = 0,
                              ![t].new_ptr = Null]
    /\ apc' = [apc EXCEPT ![t] = "cas_load"]
    /\ UNCHANGED <<atomic_data, ops_left, all_increment, removed, use_after_free>>
    /\ observed' = observed \ {t}
    /\ UNCHANGED <<overlap, clones, lockVars, handleVars, managerVars>>

\* ---- update (atomic.rs 410-420), write (535-545), read (522-532) --------
\* let ptr = self.data.load(Ordering::Acquire); if !ptr.is_null() { ... }
\* On a null pointer update() does nothing and returns; write() and read() panic.
ClosureLoad(t, op) ==
    /\ CanCall(t)
    /\ IF atomic_data = Null
       THEN /\ IF op = "update"
               THEN Return(t)
               ELSE /\ apc' = [apc EXCEPT ![t] = "panicked"]
                    /\ UNCHANGED <<frame, ops_left>>
            /\ UNCHANGED overlap
       ELSE /\ frame' = [frame EXCEPT ![t].op = op, ![t].ptr = atomic_data]
            /\ apc' = [apc EXCEPT ![t] = IF op = "read" THEN "read_deref" ELSE "closure_deref"]
            /\ UNCHANGED ops_left
            /\ overlap' = [overlap EXCEPT ![t] =
                              IF op # "read" /\ \E u \in ATh \ {t} : InSwapCall(u)
                              THEN {"overlapped"} ELSE {}]
    /\ all_increment' = FALSE
    /\ UNCHANGED <<atomic_data, heap, allocated,
                   removed, freed_twice, freed_wrong, use_after_free>>
    /\ UNCHANGED <<observed, clones, lockVars, handleVars, managerVars>>

\* update(|x| *x += 1) is called and runs to its load
UpdateLoad(t) == ClosureLoad(t, "update")

\* write(|x| *x += 1) is called and runs to its load
WriteLoad(t) == ClosureLoad(t, "write")

\* read(|x| *x) is called and runs to its load
ReadLoad(t) == ClosureLoad(t, "read")

\* f(&mut *ptr) with f = |x| *x += 1, no lock held and no compare-and-swap: the
\* load of *x ...
ClosureDeref(t) ==
    /\ apc[t] = "closure_deref"
    /\ \E v \in Deref(frame[t].ptr) : frame' = [frame EXCEPT ![t].current_value = v]
    /\ use_after_free' = IF frame[t].ptr \in allocated THEN use_after_free
                         ELSE use_after_free \cup {frame[t].op}
    /\ apc' = [apc EXCEPT ![t] = "closure_store"]
    /\ UNCHANGED <<atomic_data, heap, allocated, ops_left, all_increment,
                   removed, freed_twice, freed_wrong>>
    /\ UNCHANGED <<overlap, observed, clones, lockVars, handleVars, managerVars>>

ClosureStore_StoresRead(t) ==
    /\ apc[t] = "closure_store"
    /\ IF frame[t].ptr \in allocated
       THEN /\ heap' = [heap EXCEPT ![frame[t].ptr] = frame[t].current_value]
            /\ UNCHANGED use_after_free
       ELSE /\ use_after_free' = use_after_free \cup {frame[t].op}
            /\ UNCHANGED heap
    /\ Return(t)
    /\ UNCHANGED <<atomic_data, allocated, all_increment,
                   removed, freed_twice, freed_wrong>>
    /\ overlap' = [overlap EXCEPT ![t] = {}]
    /\ UNCHANGED <<observed, clones, lockVars, handleVars, managerVars>>

ClosureStore_ReadsAgain(t) ==
    /\ apc[t] = "closure_store"
    /\ IF frame[t].ptr \in allocated
       THEN /\ heap' = [heap EXCEPT ![frame[t].ptr] = @ + 1]
            /\ UNCHANGED use_after_free
       ELSE /\ use_after_free' = use_after_free \cup {frame[t].op}
            /\ UNCHANGED heap
    /\ Return(t)
    /\ UNCHANGED <<atomic_data, allocated, all_increment,
                   removed, freed_twice, freed_wrong>>
    /\ overlap' = [overlap EXCEPT ![t] = {}]
    /\ UNCHANGED <<observed, clones, lockVars, handleVars, managerVars>>

\* A store that loads the pointer again and writes to the Box now in the slot.
ClosureStore_Reloads(t) ==
    /\ apc[t] = "closure_store"
    /\ heap' = [heap EXCEPT ![atomic_data] = frame[t].current_value + 1]
    /\ Return(t)
    /\ UNCHANGED <<atomic_data, allocated, all_increment,
                   removed, freed_twice, freed_wrong, use_after_free>>
    /\ overlap' = [overlap EXCEPT ![t] = {}]
    /\ UNCHANGED <<observed, clones, lockVars, handleVars, managerVars>>

\* A store that puts the result in a new Box and installs that Box.
ClosureStore_Replaces(t) ==
    /\ apc[t] = "closure_store"
    /\ \E a \in Addrs \ allocated :
          /\ allocated' = allocated \cup {a}
          /\ heap' = [heap EXCEPT ![a] = frame[t].current_value + 1]
          /\ atomic_data' = a
    /\ Return(t)
    /\ UNCHANGED <<all_increment, removed, freed_twice, freed_wrong, use_after_free>>
    /\ overlap' = [overlap EXCEPT ![t] = {}]
    /\ UNCHANGED <<observed, clones, lockVars, handleVars, managerVars>>

\* ... and the store to *x, in place in the Box that ptr points to.  A store to
\* an address that has been freed is undefined behaviour; the model leaves the
\* heap as it is (what a freed address holds is already any value, see Deref).
ClosureStore(t) ==
    /\ apc[t] = "closure_store"
    /\ IF frame[t].ptr \in allocated
       THEN /\ heap' = [heap EXCEPT ![frame[t].ptr] = frame[t].current_value + 1]
            /\ UNCHANGED use_after_free
       ELSE /\ use_after_free' = use_after_free \cup {frame[t].op}
            /\ UNCHANGED heap
    /\ Return(t)
    /\ UNCHANGED <<atomic_data, allocated, all_increment,
                   removed, freed_twice, freed_wrong>>
    /\ overlap' = [overlap EXCEPT ![t] = {}]
    /\ UNCHANGED <<observed, clones, lockVars, handleVars, managerVars>>

\* unsafe { f(&*ptr) } of read()
ReadDeref(t) ==
    /\ apc[t] = "read_deref"
    /\ use_after_free' = IF frame[t].ptr \in allocated THEN use_after_free
                         ELSE use_after_free \cup {"read"}
    /\ Return(t)
    /\ UNCHANGED <<atomic_data, heap, allocated, all_increment,
                   removed, freed_twice, freed_wrong>>
    /\ observed' = observed \cup Candidates(frame[t].ptr, t)
    /\ UNCHANGED <<overlap, clones, lockVars, handleVars, managerVars>>

\* ---- clone and drop of handles (atomic.rs 250-256) ----------------------
\* The handles alive: one per thread until the thread drops it, and the clones
\* kept aside.  Their number is the strong count of the Arc<AtomicPtr<T>>.
StrongCount == clones + Cardinality({t \in ATh : apc[t] # "dropped"})

\* ArcThreadShare::clone / from_arc(share.data.clone()): Arc::clone, the slot
\* and the Box are not touched
CloneSpare ==
    /\ clones < MaxClones
    /\ StrongCount > 0
    /\ clones' = clones + 1
    /\ UNCHANGED <<atomic_data, heap, allocated, apc, frame, ops_left, all_increment,
                   removed, freed_twice, freed_wrong, use_after_free>>
    /\ UNCHANGED <<overlap, observed, lockVars, handleVars, managerVars>>

\* a clone kept aside is dropped: the strong count goes down
DropSpare ==
    /\ clones > 0
    /\ clones' = clones - 1
    /\ UNCHANGED <<atomic_data, heap, allocated, apc, frame, ops_left, all_increment,
                   removed, freed_twice, freed_wrong, use_after_free>>
    /\ UNCHANGED <<overlap, observed, lockVars, handleVars, managerVars>>

\* a thread that has made its calls drops its handle.  ArcThreadShare has no
\* Drop of its own: when the last handle goes, the Arc frees the AtomicPtr and
\* nothing drops the Box the pointer names.
DropHandle(t) ==
    /\ apc[t] = "idle"
    /\ ops_left[t] = 0
    /\ apc' = [apc EXCEPT ![t] = "dropped"]
    /\ UNCHANGED <<atomic_data, heap, allocated, frame, ops_left, all_increment,
                   removed, freed_twice, freed_wrong, use_after_free, clones>>
    /\ UNCHANGED <<overlap, observed, lockVars, handleVars, managerVars>>

\* set, increment and add called from the threads while handles are cloned
\* and dropped (atomic_tests.rs 287-310)
ChurnStep ==
    \/ CloneSpare
    \/ DropSpare
    \/ \E t \in ATh :
          \/ DropHandle(t)
          \/ \E v \in Vals : SetAlloc(t, v)
          \/ SetSwap(t)
          \/ SetFree(t)
          \/ Increment(t)
          \/ \E d \in Deltas : Add(t, d)
          \/ CasRetry(t)
          \/ CasRead(t)
          \/ CasAlloc(t)
          \/ CasExchange(t)
          \/ CasFreeOld(t)
          \/ CasFreeNew(t)

AtomicStep ==
    \E t \in ATh :
        \/ GetLoad(t)
        \/ GetDeref(t)
        \/ \E v \in Vals : SetAlloc(t, v)
        \/ SetSwap(t)
        \/ SetFree(t)
        \/ Increment(t)
        \/ \E d \in Deltas : Add(t, d)
        \/ CasRetry(t)
        \/ CasRead(t)
        \/ CasAlloc(t)
        \/ CasExchange(t)
        \/ CasFreeOld(t)
        \/ CasFreeNew(t)
        \/ UpdateLoad(t)
        \/ WriteLoad(t)
        \/ ReadLoad(t)
        \/ ClosureDeref(t)
        \/ ClosureStore(t)
        \/ ReadDeref(t)

AtomicDone == \A t \in ATh : apc[t] = "idle" /\ ops_left[t] = 0

\* ---- set, increment and add only, under a fair scheduler ------------------
\* a thread begins a call
CallStep(t) ==
    \/ \E v \in Vals : SetAlloc(t, v)
    \/ Increment(t)
    \/ \E d \in Deltas : Add(t, d)

\* a thread inside set(), increment() or add() executes its next statement
RunStep(t) ==
    \/ SetSwap(t)
    \/ SetFree(t)
    \/ CasRetry(t)
    \/ CasRead(t)
    \/ CasAlloc(t)
    \/ CasExchange(t)
    \/ CasFreeOld(t)
    \/ CasFreeNew(t)

ProgressStep == \E t \in ATh : CallStep(t) \/ RunStep(t)

\* the scheduler lets every thread that is inside a call run again
FairScheduler == \A t \in ATh : WF_vars(RunStep(t))

\* ArcThreadShare::new(0), one clone per thread, UpdateOps calls each
UpdateOnlyStart ==
    /\ atomic_data = 1
    /\ heap = [a \in Addrs |-> 0]
    /\ allocated = {1}
    /\ apc = [t \in ATh |-> "idle"]
    /\ frame = [t \in ATh |-> NoFrame]
    /\ ops_left = [t \in ATh |-> UpdateOps]
    /\ all_increment = TRUE
    /\ removed = {}
    /\ freed_twice = FALSE
    /\ freed_wrong = FALSE
    /\ use_after_free = {}
    /\ clones = 0
    /\ observed = {}
    /\ overlap = [t \in ATh |-> {}]

\* only update(|x| *x += 1) is called
UpdateOnlyStep ==
    \E t \in ATh :
        \/ UpdateLoad(t)
        \/ ClosureDeref(t)
        \/ ClosureStore(t)

\* ArcThreadShare::from_arc over an AtomicPtr that holds the null pointer
AtomicNullStart ==
    /\ atomic_data = Null
    /\ heap = [a \in Addrs |-> 0]
    /\ allocated = {}
    /\ apc = [t \in ATh |-> "idle"]
    /\ frame = [t \in ATh |-> NoFrame]
    /\ ops_left = [t \in ATh |-> AtomicOps]
    /\ all_increment = TRUE
    /\ removed = {}
    /\ freed_twice = FALSE
    /\ freed_wrong = FALSE
    /\ use_after_free = {}
    /\ clones = 0
    /\ observed = {}
    /\ overlap = [t \in ATh |-> {}]

(***************************************************************************)
(* ThreadShare, SimpleShare (core.rs) and ArcThreadShareLocked (locked.rs) *)
(***************************************************************************)
NoThread == 0
Kinds == {"ThreadShare", "ArcThreadShareLocked", "SimpleShare"}

\* The locals of a call: `op` the method, `new_data` the argument of set, `x`
\* the value the closure |x| *x += 1 has read; `seq` numbers the write the call
\* has made (0: none yet), `expired` says its timeout has run out, and
\* `waiting` holds the threads that were inside a wait call when it was called.
NoCall == [op |-> "none", new_data |-> 0, x |-> 0, seq |-> 0, expired |-> FALSE,
           waiting |-> {}]

\* The bodies of the methods, statement by statement.
SetSteps_NotifyFirst == <<"notify_all", "write", "assign", "unlock">>

\* ThreadShare::set (core.rs 382-386): the write guard `data` lives to the end
\* of the body, so it is dropped after notify_all.
SetSteps == <<"write", "assign", "notify_all", "unlock">>
\* ThreadShare::update (core.rs 410-417), with f = |x| *x += 1
UpdateSteps == <<"write", "closure_read", "closure_write", "notify_all", "unlock">>
\* ThreadShare::get (core.rs 283-288), ArcThreadShareLocked::get (locked.rs 312-317)
GetSteps == <<"read", "clone", "unlock">>
\* ThreadShare::wait_for_change (core.rs 454-458) and wait_for_change_forever
\* (core.rs 483-486): lock receiver, wait on the condvar (which unlocks, blocks
\* and locks again when it wakes), drop the guard.
WaitSteps == <<"receiver_lock", "condvar_wait", "wake", "receiver_unlock">>
\* ArcThreadShareLocked::set (locked.rs 472-475), ::update (locked.rs 499-505)
LockedSetSteps == <<"write", "assign", "unlock">>
LockedUpdateSteps == <<"write", "closure_read", "closure_write", "unlock">>
\* SimpleShare::get (core.rs 696-701), ::set (720-723), ::update (746-752)
SimpleGetSteps == <<"lock", "clone", "unlock">>
SimpleSetSteps == <<"lock", "assign", "unlock">>
SimpleUpdateSteps == <<"lock", "closure_read", "closure_write", "unlock">>

\* ArcThreadShareLocked::get_ref (locked.rs 349-351) and try_get_ref
\* (381-383), followed by what the caller does with the guard: let v = *guard;
\* and the guard goes out of scope
GetRefSteps == <<"read", "clone", "unlock">>
TryGetRefSteps == <<"try_read", "clone", "unlock">>
\* ArcThreadShareLocked::get_mut (locked.rs 422-424) and try_get_mut (451-453),
\* followed by *guard += 1; and the guard goes out of scope
GetMutSteps == <<"write", "closure_read", "closure_write", "unlock">>
TryGetMutSteps == <<"try_write", "closure_read", "closure_write", "unlock">>

WriteSteps_Notifies == UpdateSteps

\* ThreadShare::write (core.rs 349-355), with f = |x| *x += 1
WriteSteps == <<"write", "closure_read", "closure_write", "unlock">>

Steps(k, op) ==
    CASE op = "set" -> (CASE k = "ThreadShare" -> SetSteps
                          [] k = "ArcThreadShareLocked" -> LockedSetSteps
                          [] OTHER -> SimpleSetSteps)
      [] op = "update" -> (CASE k = "ThreadShare" -> UpdateSteps
                             [] k = "ArcThreadShareLocked" -> LockedUpdateSteps
                             [] OTHER -> SimpleUpdateSteps)
      [] op = "get" -> (IF k = "SimpleShare" THEN SimpleGetSteps ELSE GetSteps)
      [] op = "write" -> WriteSteps
      [] op = "locked_set" -> LockedSetSteps
      [] op = "locked_update" -> LockedUpdateSteps
      [] op = "get_ref" -> GetRefSteps
      [] op = "try_get_ref" -> TryGetRefSteps
      [] op = "get_mut" -> GetMutSteps
      [] op = "try_get_mut" -> TryGetMutSteps
      [] OTHER -> WaitSteps

\* the statement a thread is at
Statement(t) == IF lpc[t] = 0 THEN "none" ELSE Steps(kind, call[t].op)[lpc[t]]

\* to the next statement; past the last one the method returns
Advance(t) ==
    /\ IF lpc[t] = Len(Steps(kind, call[t].op))
       THEN /\ lpc' = [lpc EXCEPT ![t] = 0]
            /\ calls_left' = [calls_left EXCEPT ![t] = @ - 1]
       ELSE /\ lpc' = [lpc EXCEPT ![t] = @ + 1]
            /\ UNCHANGED calls_left
    /\ UNCHANGED <<poisoned, panicked, atomicVars, handleVars, managerVars>>

\* the same, for a statement that changes no local
Step(t) ==
    /\ Advance(t)
    /\ call' = [call EXCEPT ![t] = IF lpc[t] = Len(Steps(kind, call[t].op))
                                   THEN NoCall ELSE @]

lockState == <<lock_writer, lock_readers>>
condvarState == <<receiver, parked>>
lockHistory == <<ver, heard, later_heard, woke_seq, seen_ver, late_waiter, tried>>

\* a thread is inside a wait call whose timeout has not run out
Waiting(w) ==
    /\ call[w].op \in {"wait_for_change", "wait_for_change_forever"}
    /\ ~call[w].expired

Begin(t, c) ==
    /\ lpc[t] = 0
    /\ calls_left[t] > 0
    /\ lpc' = [lpc EXCEPT ![t] = 1]
    /\ call' = [call EXCEPT ![t] = c]
    /\ UNCHANGED <<kind, data, lockState, condvarState, calls_left, got,
                   poisoned, panicked, atomicVars, handleVars, managerVars>>

\* ---- the calls ----------------------------------------------------------
Set(t, new_data) ==
    /\ Begin(t, [NoCall EXCEPT !.op = "set", !.new_data = new_data,
                               !.waiting = {w \in DOMAIN call : Waiting(w)}])
    /\ UNCHANGED <<timed_out, lockHistory>>

Update(t) ==
    /\ Begin(t, [NoCall EXCEPT !.op = "update",
                               !.waiting = {w \in DOMAIN call : Waiting(w)}])
    /\ UNCHANGED <<timed_out, lockHistory>>

Get(t) ==
    /\ Begin(t, [NoCall EXCEPT !.op = "get"])
    /\ UNCHANGED <<timed_out, lockHistory>>

\* A wait call is late when it is the first wait call made and a set()/update()
\* has returned before it.
WaitBegin(t, op) ==
    /\ Begin(t, [NoCall EXCEPT !.op = op])
    /\ late_waiter' =
         IF /\ late_waiter = NoThread
            /\ \A w \in DOMAIN timed_out : timed_out[w] = "none" /\ lpc[w] = 0
            /\ ver > 0
            /\ \A s \in DOMAIN lpc : call[s].op \notin {"set", "update"}
         THEN t ELSE late_waiter
    /\ UNCHANGED <<timed_out, ver, heard, later_heard, woke_seq, seen_ver, tried>>

WaitForChange(t) == WaitBegin(t, "wait_for_change")

WaitForChangeForever(t) == WaitBegin(t, "wait_for_change_forever")

\* ---- the statements -----------------------------------------------------
AcquireWrite_Shared(t) ==
    /\ Statement(t) = "write"
    /\ lock_writer = NoThread
    /\ lock_readers' = lock_readers \cup {t}
    /\ Step(t)
    /\ UNCHANGED <<kind, data, lock_writer, condvarState, timed_out, got, lockHistory>>

\* self.data.write(): parking_lot RwLock, exclusive
AcquireWrite(t) ==
    /\ Statement(t) = "write"
    /\ lock_writer = NoThread /\ lock_readers = {}
    /\ lock_writer' = t
    /\ Step(t)
    /\ UNCHANGED <<kind, data, lock_readers, condvarState, timed_out, got, lockHistory>>

AcquireRead_NoWait(t) ==
    /\ Statement(t) = "read"
    /\ lock_readers' = lock_readers \cup {t}
    /\ Step(t)
    /\ UNCHANGED <<kind, data, lock_writer, condvarState, timed_out, got, lockHistory>>

\* self.data.read(): shared with other readers
AcquireRead(t) ==
    /\ Statement(t) = "read"
    /\ lock_writer = NoThread
    /\ lock_readers' = lock_readers \cup {t}
    /\ Step(t)
    /\ UNCHANGED <<kind, data, lock_writer, condvarState, timed_out, got, lockHistory>>

MutexLock_IgnoresPoison(t) ==
    /\ Statement(t) = "lock"
    /\ lock_writer = NoThread
    /\ lock_writer' = t
    /\ Step(t)
    /\ UNCHANGED <<kind, data, lock_readers, condvarState, timed_out, got, lockHistory>>

\* self.data.lock().unwrap(): std Mutex of SimpleShare, lock() returning Ok
MutexLock(t) ==
    /\ Statement(t) = "lock"
    /\ lock_writer = NoThread
    /\ ~poisoned
    /\ lock_writer' = t
    /\ Step(t)
    /\ UNCHANGED <<kind, data, lock_readers, condvarState, timed_out, got, lockHistory>>

\* the guard `data` goes out of scope
Unlock(t) ==
    /\ Statement(t) = "unlock"
    /\ lock_writer' = IF lock_writer = t THEN NoThread ELSE lock_writer
    /\ lock_readers' = lock_readers \ {t}
    /\ Step(t)
    /\ UNCHANGED <<kind, data, condvarState, timed_out, got, lockHistory>>

\* *data = new_data;
Assign(t) ==
    /\ Statement(t) = "assign"
    /\ data' = call[t].new_data
    /\ ver' = ver + 1
    /\ call' = [call EXCEPT ![t].seq = ver + 1]
    /\ Advance(t)
    /\ UNCHANGED <<kind, lockState, condvarState, timed_out, got,
                   heard, later_heard, woke_seq, seen_ver, late_waiter, tried>>

\* f(&mut data) with f = |x| *x += 1: the load ...
ClosureRead(t) ==
    /\ Statement(t) = "closure_read"
    /\ call' = [call EXCEPT ![t].x = data]
    /\ Advance(t)
    /\ UNCHANGED <<kind, data, lockState, condvarState, timed_out, got, lockHistory>>

\* ... and the store
ClosureWrite(t) ==
    /\ Statement(t) = "closure_write"
    /\ data' = call[t].x + 1
    /\ ver' = ver + 1
    /\ call' = [call EXCEPT ![t].seq = ver + 1]
    /\ Advance(t)
    /\ UNCHANGED <<kind, lockState, condvarState, timed_out, got,
                   heard, later_heard, woke_seq, seen_ver, late_waiter, tried>>

Clone_ReadsSnapshot(t) ==
    /\ Statement(t) = "clone"
    /\ got' = [got EXCEPT ![t] = 0]
    /\ seen_ver' = [seen_ver EXCEPT ![t] = ver]
    /\ Step(t)
    /\ UNCHANGED <<kind, data, lockState, condvarState, timed_out,
                   ver, heard, later_heard, woke_seq, late_waiter, tried>>

\* self.data.read().clone() / self.data.lock().unwrap().clone()
Clone(t) ==
    /\ Statement(t) = "clone"
    /\ got' = [got EXCEPT ![t] = data]
    /\ seen_ver' = [seen_ver EXCEPT ![t] = ver]
    /\ Step(t)
    /\ UNCHANGED <<kind, data, lockState, condvarState, timed_out,
                   ver, heard, later_heard, woke_seq, late_waiter, tried>>

\* self.condvar.notify_all(): every thread blocked in the condvar is woken, and
\* nothing is remembered for a thread that is not blocked in it yet.
NotifyAll(t) ==
    /\ Statement(t) = "notify_all"
    /\ parked' = {}
    /\ heard' = heard \cup {w \in DOMAIN call : Waiting(w)}
    /\ later_heard' = later_heard \cup {w \in call[t].waiting : Waiting(w)}
    /\ woke_seq' = [w \in DOMAIN woke_seq |->
                      IF w \in parked
                      THEN (IF call[t].seq # 0 THEN call[t].seq ELSE ver + 1)
                      ELSE woke_seq[w]]
    /\ Step(t)
    /\ UNCHANGED <<kind, data, lockState, receiver, timed_out, got,
                   ver, seen_ver, late_waiter, tried>>

\* let guard = self.receiver.lock().unwrap();
ReceiverLock(t) ==
    /\ Statement(t) = "receiver_lock"
    /\ receiver = NoThread
    /\ receiver' = t
    /\ Step(t)
    /\ UNCHANGED <<kind, data, lockState, parked, timed_out, got, lockHistory>>

\* self.condvar.wait(guard) / wait_timeout(guard, timeout): the mutex is
\* unlocked and the thread blocks, in one step
CondvarWait(t) ==
    /\ Statement(t) = "condvar_wait"
    /\ receiver' = NoThread
    /\ parked' = parked \cup {t}
    /\ Step(t)
    /\ UNCHANGED <<kind, data, lockState, timed_out, got, lockHistory>>

\* wait_timeout only: the timeout runs out while the thread is blocked
Timeout(t) ==
    /\ Statement(t) = "wake"
    /\ t \in parked
    /\ call[t].op = "wait_for_change"
    /\ parked' = parked \ {t}
    /\ call' = [call EXCEPT ![t].expired = TRUE]
    /\ UNCHANGED <<kind, data, lockState, receiver, lpc, calls_left, timed_out, got,
                   lockHistory, poisoned, panicked, atomicVars, handleVars, managerVars>>

\* the woken (or timed out) thread locks the mutex again before wait returns
Wake(t) ==
    /\ Statement(t) = "wake"
    /\ t \notin parked
    /\ receiver = NoThread
    /\ receiver' = t
    /\ Step(t)
    /\ UNCHANGED <<kind, data, lockState, parked, timed_out, got, lockHistory>>

ReceiverUnlock_Negated(t) ==
    /\ Statement(t) = "receiver_unlock"
    /\ receiver' = NoThread
    /\ timed_out' = [timed_out EXCEPT ![t] = IF call[t].expired THEN "false" ELSE "true"]
    /\ Step(t)
    /\ UNCHANGED <<kind, data, lockState, parked, got, lockHistory>>

\* result.1.timed_out(), and the guard is dropped
ReceiverUnlock(t) ==
    /\ Statement(t) = "receiver_unlock"
    /\ receiver' = NoThread
    /\ timed_out' = [timed_out EXCEPT ![t] = IF call[t].expired THEN "true" ELSE "false"]
    /\ Step(t)
    /\ UNCHANGED <<kind, data, lockState, parked, got, lockHistory>>

\* ---- panics ------------------------------------------------------------
\* the thread is past the acquisition of the lock and has not released it
InCritical(t) == lpc[t] > 1 /\ call[t].op \in {"get", "set", "update"}

\* ... and is a writer
Writing(t) == InCritical(t) /\ call[t].op \in {"set", "update"}

\* the thread unwinds: it makes no further call
Unwind(t) ==
    /\ panicked' = panicked \cup {t}
    /\ lpc' = [lpc EXCEPT ![t] = 0]
    /\ call' = [call EXCEPT ![t] = NoCall]
    /\ calls_left' = [calls_left EXCEPT ![t] = 0]
    /\ UNCHANGED <<kind, data, lock_readers, condvarState, timed_out, got, lockHistory,
                   atomicVars, handleVars, managerVars>>

ClosurePanic_KeepsLock(t) ==
    /\ Statement(t) \in {"closure_read", "closure_write"}
    /\ UNCHANGED <<lock_writer, poisoned>>
    /\ Unwind(t)

\* the closure f passed to update() panics (core.rs 415, 751; locked.rs 503):
\* the guard `data` is dropped by the unwinding, which releases the lock; the
\* statements after f, notify_all included, do not run.  Dropping the guard of
\* a std Mutex during a panic poisons the mutex (SimpleShare); a parking_lot
\* RwLock has no poisoning.
ClosurePanic(t) ==
    /\ Statement(t) \in {"closure_read", "closure_write"}
    /\ lock_writer' = NoThread
    /\ poisoned' = (kind = "SimpleShare")
    /\ Unwind(t)

\* self.data.lock().unwrap() on a poisoned Mutex: lock() returns Err once the
\* mutex is free, and unwrap() panics
LockPoisoned(t) ==
    /\ Statement(t) = "lock"
    /\ lock_writer = NoThread
    /\ poisoned
    /\ UNCHANGED <<lock_writer, poisoned>>
    /\ Unwind(t)

\* ---- N writers and a polling reader on each of the three types ----------
LWriters == 1..LockWriters
LReader == LockWriters + 1

LockShared(threads, budget) ==
    /\ data = 0
    /\ lock_writer = NoThread
    /\ lock_readers = {}
    /\ receiver = NoThread
    /\ parked = {}
    /\ lpc = [t \in threads |-> 0]
    /\ call = [t \in threads |-> NoCall]
    /\ calls_left = budget
    /\ timed_out = [t \in threads |-> "none"]
    /\ got = [t \in threads |-> 0]
    /\ ver = 0
    /\ heard = {}
    /\ later_heard = {}
    /\ woke_seq = [t \in threads |-> 0]
    /\ seen_ver = [t \in threads |-> 0]
    /\ late_waiter = NoThread
    /\ tried = [t \in threads |-> "none"]
    /\ poisoned = FALSE
    /\ panicked = {}

LockedStart ==
    /\ kind \in Kinds
    /\ LockShared(LWriters \cup {LReader}, [t \in LWriters \cup {LReader} |-> LockOps])

LockedStep ==
    \/ \E t \in LWriters : Update(t)
    \/ Get(LReader)
    \/ \E t \in LWriters \cup {LReader} :
        \/ AcquireWrite(t)
        \/ AcquireRead(t)
        \/ MutexLock(t)
        \/ ClosureRead(t)
        \/ ClosureWrite(t)
        \/ Clone(t)
        \/ NotifyAll(t)
        \/ Unlock(t)

LockedDone == \A t \in LWriters : lpc[t] = 0 /\ calls_left[t] = 0

\* ---- one writer setting 1, 2, .. in order, one reader ----------------------
\* thread_share_tests.rs 17-43: a thread calls set(i) for i = 1, 2, .. on a
\* clone while the other calls get() again and again
OWriter == 1
OReader == 2

OrderStart ==
    /\ kind \in Kinds
    /\ LockShared({OWriter, OReader},
                  [t \in {OWriter, OReader} |-> IF t = OWriter THEN OrderSets ELSE OrderGets])

\* share_clone.set(i): the i-th call passes i
SetNext(t) ==
    /\ calls_left[t] > 0
    /\ Set(t, OrderSets - calls_left[t] + 1)

OrderStep ==
    \/ SetNext(OWriter)
    \/ Get(OReader)
    \/ \E t \in {OWriter, OReader} :
        \/ AcquireWrite(t)
        \/ AcquireRead(t)
        \/ MutexLock(t)
        \/ Assign(t)
        \/ Clone(t)
        \/ NotifyAll(t)
        \/ Unlock(t)

OWriterDone == lpc[OWriter] = 0 /\ calls_left[OWriter] = 0

\* the writers also call set(), and the closure of an update() may panic
PanicStep ==
    \/ \E t \in LWriters :
        \/ \E v \in Vals : Set(t, v)
        \/ Assign(t)
        \/ ClosurePanic(t)
    \/ \E t \in LWriters \cup {LReader} : LockPoisoned(t)

\* ---- setters and waiters on one ThreadShare -----------------------------
Setters == 1..NotifySetters
Waiters == (NotifySetters + 1)..(NotifySetters + NotifyWaiters)

\* a waiter makes two calls: a wait, then a get
NotifyStart ==
    /\ kind = "ThreadShare"
    /\ LockShared(Setters \cup Waiters,
                  [t \in Setters \cup Waiters |-> IF t \in Setters THEN NotifyOps ELSE 2])

NotifyStep ==
    \/ \E t \in Setters :
        \/ \E v \in Vals : Set(t, v)
        \/ Update(t)
    \/ \E t \in Waiters :
        \/ calls_left[t] = 2 /\ WaitForChange(t)
        \/ calls_left[t] = 2 /\ WaitForChangeForever(t)
        \/ calls_left[t] = 1 /\ Get(t)
    \/ \E t \in Setters \cup Waiters :
        \/ AcquireWrite(t)
        \/ AcquireRead(t)
        \/ Assign(t)
        \/ ClosureRead(t)
        \/ ClosureWrite(t)
        \/ Clone(t)
        \/ NotifyAll(t)
        \/ Unlock(t)
        \/ ReceiverLock(t)
        \/ CondvarWait(t)
        \/ Timeout(t)
        \/ Wake(t)
        \/ ReceiverUnlock(t)

SettersDone == \A s \in Setters : lpc[s] = 0 /\ calls_left[s] = 0

\* ---- a writer, readers that never stop polling, and a waiter ---------------
FReaders == 1..FairReaders
FWriter == FairReaders + 1
FWaiter == FairReaders + 2
FThreads == FReaders \cup {FWriter, FWaiter}

AcquireReadFair_Barging(t) ==
    /\ Statement(t) = "read"
    /\ lock_writer = NoThread
    /\ lock_readers' = lock_readers \cup {t}
    /\ Step(t)
    /\ UNCHANGED <<kind, data, lock_writer, condvarState, timed_out, got, lockHistory>>

\* self.data.read() under the locking policy parking_lot documents for its
\* RwLock: a reader that arrives while a writer is waiting for the lock blocks
\* behind that writer, even if only readers hold the lock.
AcquireReadFair(t) ==
    /\ Statement(t) = "read"
    /\ lock_writer = NoThread
    /\ \A w \in DOMAIN lpc : Statement(w) # "write"
    /\ lock_readers' = lock_readers \cup {t}
    /\ Step(t)
    /\ UNCHANGED <<kind, data, lock_writer, condvarState, timed_out, got, lockHistory>>

\* loop { share.get(); }: the reader calls again
ReaderLoops(t) ==
    /\ lpc[t] = 0
    /\ calls_left[t] = 0
    /\ calls_left' = [calls_left EXCEPT ![t] = 1]
    /\ UNCHANGED <<kind, data, lockState, condvarState, lpc, call, timed_out, got,
                   lockHistory, poisoned, panicked, atomicVars, handleVars, managerVars>>

\* the writer makes FairOps calls, the waiter a wait_for_change(timeout) and
\* then a get(), a reader one get() after the other
FairStart ==
    /\ kind \in Kinds
    /\ LockShared(FThreads, [t \in FThreads |-> IF t = FWriter THEN FairOps
                                                 ELSE IF t = FWaiter THEN 2 ELSE 1])

\* a thread blocked on a lock acquires it
FairAcquire(t) ==
    \/ AcquireWrite(t)
    \/ AcquireReadFair(t)
    \/ MutexLock(t)
    \/ ReceiverLock(t)
    \/ Wake(t)

\* a thread inside a call executes a statement that does not block
FairRun(t) ==
    \/ Assign(t)
    \/ ClosureRead(t)
    \/ ClosureWrite(t)
    \/ Clone(t)
    \/ NotifyAll(t)
    \/ Unlock(t)
    \/ CondvarWait(t)
    \/ Timeout(t)
    \/ ReceiverUnlock(t)

FairStep ==
    \/ \E v \in Vals : Set(FWriter, v)
    \/ Update(FWriter)
    \/ \E t \in FReaders : Get(t) \/ ReaderLoops(t)
    \/ kind = "ThreadShare" /\ calls_left[FWaiter] = 2 /\ WaitForChange(FWaiter)
    \/ calls_left[FWaiter] = 1 /\ Get(FWaiter)
    \/ \E t \in FThreads : FairAcquire(t) \/ FairRun(t)

\* the scheduler lets every thread run again, and a thread blocked on a lock
\* that becomes free again and again gets it in the end
FairLocks == \A t \in FThreads : WF_vars(FairRun(t)) /\ SF_vars(FairAcquire(t))

\* ---- mutations of a ThreadShare that do not go through set()/update() ------
\* share.write(|x| *x += 1)
Write(t) ==
    /\ Begin(t, [NoCall EXCEPT !.op = "write",
                               !.waiting = {w \in DOMAIN call : Waiting(w)}])
    /\ UNCHANGED <<timed_out, lockHistory>>

\* ArcThreadShareLocked::from_arc(share.as_arc_locked()).set(new_data): the Arc
\* is a clone of share.data (core.rs 583-585, 553-555), so the call locks and
\* writes the RwLock<T> of the ThreadShare
LockedSet(t, new_data) ==
    /\ Begin(t, [NoCall EXCEPT !.op = "locked_set", !.new_data = new_data,
                               !.waiting = {w \in DOMAIN call : Waiting(w)}])
    /\ UNCHANGED <<timed_out, lockHistory>>

\* ... .update(|x| *x += 1), or *arc.write() += 1 on the raw Arc<RwLock<T>>
LockedUpdate(t) ==
    /\ Begin(t, [NoCall EXCEPT !.op = "locked_update",
                               !.waiting = {w \in DOMAIN call : Waiting(w)}])
    /\ UNCHANGED <<timed_out, lockHistory>>

\* the setters of NotifyStep also mutate the value in these three ways
QuietStep ==
    \/ NotifyStep
    \/ \E t \in Setters :
        \/ Write(t)
        \/ \E v \in Vals : LockedSet(t, v)
        \/ LockedUpdate(t)

\* ---- the guard API of ArcThreadShareLocked --------------------------------
GThreads == 1..GuardThreads

\* get_ref(), get_mut(), try_get_ref() or try_get_mut() is called
GuardCall(t, op) ==
    /\ Begin(t, [NoCall EXCEPT !.op = op])
    /\ UNCHANGED <<timed_out, lockHistory>>

GetRef(t) == GuardCall(t, "get_ref") /\ kind = "ArcThreadShareLocked"

GetMut(t) == GuardCall(t, "get_mut") /\ kind = "ArcThreadShareLocked"

TryGetRef(t) == GuardCall(t, "try_get_ref") /\ kind = "ArcThreadShareLocked"

TryGetMut(t) == GuardCall(t, "try_get_mut") /\ kind = "ArcThreadShareLocked"

\* the try call returns None: the caller has no guard and goes on
ReturnNone(t) ==
    /\ lpc' = [lpc EXCEPT ![t] = 0]
    /\ call' = [call EXCEPT ![t] = NoCall]
    /\ calls_left' = [calls_left EXCEPT ![t] = @ - 1]
    /\ tried' = [tried EXCEPT ![t] = "None"]
    /\ UNCHANGED <<kind, data, lockState, condvarState, timed_out, got,
                   ver, heard, later_heard, woke_seq, seen_ver, late_waiter,
                   poisoned, panicked, atomicVars, handleVars, managerVars>>

\* the try call returns Some(guard)
ReturnSome(t) ==
    /\ Step(t)
    /\ tried' = [tried EXCEPT ![t] = "Some"]
    /\ UNCHANGED <<kind, data, condvarState, timed_out, got,
                   ver, heard, later_heard, woke_seq, seen_ver, late_waiter>>

TryWrite_IgnoresReaders(t) ==
    /\ Statement(t) = "try_write"
    /\ IF lock_writer = NoThread
       THEN /\ lock_writer' = t
            /\ UNCHANGED lock_readers
            /\ ReturnSome(t)
       ELSE ReturnNone(t)

\* self.data.try_read(): the read lock if it can be had at once, None if a
\* writer holds the lock.  While a writer is waiting for readers to leave,
\* parking_lot may grant or refuse a new reader.
TryRead(t) ==
    /\ Statement(t) = "try_read"
    /\ \E granted \in IF lock_writer # NoThread THEN {FALSE}
                      ELSE IF \E w \in DOMAIN lpc : Statement(w) = "write"
                           THEN {TRUE, FALSE} ELSE {TRUE} :
          IF granted
          THEN /\ lock_readers' = lock_readers \cup {t}
               /\ UNCHANGED lock_writer
               /\ ReturnSome(t)
          ELSE ReturnNone(t)

\* self.data.try_write(): the write lock if nobody holds the lock, else None
TryWrite(t) ==
    /\ Statement(t) = "try_write"
    /\ IF lock_writer = NoThread /\ lock_readers = {}
       THEN /\ lock_writer' = t
            /\ UNCHANGED lock_readers
            /\ ReturnSome(t)
       ELSE ReturnNone(t)

\* GuardOps calls of each thread on clones of one ArcThreadShareLocked
GuardStart ==
    /\ kind = "ArcThreadShareLocked"
    /\ LockShared(GThreads, [t \in GThreads |-> GuardOps])

GuardStep ==
    \E t \in GThreads :
        \/ GetRef(t)
        \/ GetMut(t)
        \/ TryGetRef(t)
        \/ TryGetMut(t)
        \/ Update(t)
        \/ Get(t)
        \/ AcquireRead(t)
        \/ AcquireWrite(t)
        \/ TryRead(t)
        \/ TryWrite(t)
        \/ ClosureRead(t)
        \/ ClosureWrite(t)
        \/ Clone(t)
        \/ Unlock(t)

(***************************************************************************)
(* Handles: new(), clone(), set(), update(), get() called one after the    *)
(* other on handles of one type                                            *)
(***************************************************************************)
AllKinds == Kinds \cup {"ArcThreadShare"}
Handles == 1..MaxHandles
HandleAddrs == 1..(MaxHandles + 1)
NoHandle == 0
NoValue == -1

\* the handle made by new() that h descends from by clone()
RECURSIVE Root(_)
Root(h) == IF parent[h] = NoHandle THEN h ELSE Root(parent[h])

Family(h) == {g \in Handles : arc[g] # 0 /\ Root(g) = Root(h)}

NotExported == [how |-> "none", from |-> NoHandle]

\* the cell is an AtomicPtr: that of an ArcThreadShare, or one made by as_arc()
\* (the cell a handle makes carries the handle's number)
IsAtomic(c) == kind = "ArcThreadShare" \/ exported[c].how = "as_arc"

\* what a cell holds: the value under the lock, or the Box behind the AtomicPtr
Content(c) == IF IsAtomic(c) THEN boxes[cell[c]] ELSE cell[c]

\* the type of handle h: that of the value it was exported as, or else that of
\* the handle it was cloned from
RECURSIVE TypeOf(_)
TypeOf(h) ==
    IF exported[h].how = "as_arc" THEN "ArcThreadShare"
    ELSE IF exported[h].how = "as_arc_locked" THEN "ArcThreadShareLocked"
    ELSE IF parent[h] = NoHandle THEN kind
    ELSE TypeOf(parent[h])

NoResult == [handle |-> NoHandle, json |-> <<>>, result |-> "none", value |-> NoValue]

\* a call other than from_json() that runs no notify_all
Quiet ==
    /\ notified' = FALSE
    /\ returned' = NoResult

\* set() and update() of ThreadShare end with self.condvar.notify_all()
\* (core.rs 385, 416); those of the other types have no condvar
Notifies(h) ==
    /\ notified' = (TypeOf(h) = "ThreadShare")
    /\ returned' = NoResult

\* a mutation through h: gets made before it in the family are out of date
Mutated(h, v) ==
    /\ last_set' = [last_set EXCEPT ![Root(h)] = v]
    /\ set_by' = [set_by EXCEPT ![Root(h)] = IF v = NoValue THEN NoHandle ELSE h]
    /\ got_by' = [g \in Handles |-> IF g \in Family(h) THEN NoValue ELSE got_by[g]]

\* the content of a new cell c: the value, or a fresh Box holding it
Store(c, v) ==
    IF kind = "ArcThreadShare"
    THEN \E a \in {b \in HandleAddrs : boxes[b] = NoValue} :
            /\ boxes' = [boxes EXCEPT ![a] = v]
            /\ cell' = [cell EXCEPT ![c] = a]
    ELSE /\ cell' = [cell EXCEPT ![c] = v]
         /\ UNCHANGED boxes

\* ThreadShare::new (core.rs 255-262), SimpleShare::new (668-672),
\* ArcThreadShareLocked::new (locked.rs 255-258), ArcThreadShare::new
\* (atomic.rs 314-322): a new cell; the cell of handle h is numbered h
HandleNew(h, v) ==
    /\ arc[h] = 0
    /\ arc' = [arc EXCEPT ![h] = h]
    /\ Store(h, v)
    /\ UNCHANGED <<parent, last_set, set_by, got_by, exported, atomicVars, lockVars, managerVars>>
    /\ Quiet

HandleClone_Copies(h, g) ==
    /\ arc[h] # 0
    /\ arc[g] = 0
    /\ arc' = [arc EXCEPT ![g] = g]
    /\ Store(g, Content(arc[h]))
    /\ parent' = [parent EXCEPT ![g] = h]
    /\ UNCHANGED <<last_set, set_by, got_by, exported, atomicVars, lockVars, managerVars>>
    /\ Quiet

\* Clone for ThreadShare (core.rs 521-528), SimpleShare (783-787),
\* ArcThreadShareLocked (locked.rs 224-230), ArcThreadShare (atomic.rs 250-256):
\* Arc::clone of the data, the new handle g points to the cell of h
HandleClone(h, g) ==
    /\ arc[h] # 0
    /\ arc[g] = 0
    /\ arc' = [arc EXCEPT ![g] = arc[h]]
    /\ parent' = [parent EXCEPT ![g] = h]
    /\ UNCHANGED <<cell, boxes, last_set, set_by, got_by, exported, atomicVars,
                   lockVars, managerVars>>
    /\ Quiet

HandleSet_WritesThrough(h, v) ==
    /\ arc[h] # 0
    /\ IF IsAtomic(arc[h])
       THEN /\ \E a \in {b \in HandleAddrs : boxes[b] = NoValue} :
                 /\ boxes' = [boxes EXCEPT ![a] = v, ![cell[arc[h]]] = NoValue]
                 /\ cell' = [c \in Handles |->
                               IF c = arc[h] THEN a
                               ELSE IF exported[arc[h]].how = "as_arc"
                                       /\ c = arc[exported[arc[h]].from] THEN v
                               ELSE cell[c]]
       ELSE /\ cell' = [cell EXCEPT ![arc[h]] = v]
            /\ UNCHANGED boxes
    /\ Mutated(h, v)
    /\ UNCHANGED <<arc, parent, exported, atomicVars, lockVars, managerVars>>
    /\ Notifies(h)

\* set (core.rs 382-386, 720-723; locked.rs 472-475): the value under the lock
\* is overwritten; ArcThreadShare::set (atomic.rs 372-384): a new Box is swapped
\* in and the old one is freed
HandleSet(h, v) ==
    /\ arc[h] # 0
    /\ IF IsAtomic(arc[h])
       THEN \E a \in {b \in HandleAddrs : boxes[b] = NoValue} :
               /\ boxes' = [boxes EXCEPT ![a] = v, ![cell[arc[h]]] = NoValue]
               /\ cell' = [cell EXCEPT ![arc[h]] = a]
       ELSE /\ cell' = [cell EXCEPT ![arc[h]] = v]
            /\ UNCHANGED boxes
    /\ Mutated(h, v)
    /\ UNCHANGED <<arc, parent, exported, atomicVars, lockVars, managerVars>>
    /\ Notifies(h)

\* update(|x| *x += 1) (core.rs 410-417, 746-752; locked.rs 499-505); on
\* ArcThreadShare (atomic.rs 410-420) the closure runs on the Box in place
HandleUpdate(h) ==
    /\ arc[h] # 0
    /\ Content(arc[h]) < MaxVal
    /\ IF IsAtomic(arc[h])
       THEN /\ boxes' = [boxes EXCEPT ![cell[arc[h]]] = @ + 1]
            /\ UNCHANGED cell
       ELSE /\ cell' = [cell EXCEPT ![arc[h]] = @ + 1]
            /\ UNCHANGED boxes
    /\ Mutated(h, NoValue)
    /\ UNCHANGED <<arc, parent, exported, atomicVars, lockVars, managerVars>>
    /\ Notifies(h)

HandleGet_TakesValue(h) ==
    /\ arc[h] # 0
    /\ got_by' = [got_by EXCEPT ![h] = Content(arc[h])]
    /\ IF IsAtomic(arc[h])
       THEN /\ boxes' = [boxes EXCEPT ![cell[arc[h]]] = 0]
            /\ UNCHANGED cell
       ELSE /\ cell' = [cell EXCEPT ![arc[h]] = 0]
            /\ UNCHANGED boxes
    /\ UNCHANGED <<arc, parent, last_set, set_by, exported, atomicVars, lockVars, managerVars>>
    /\ Quiet

\* get (core.rs 283-288, 696-701; locked.rs 312-317; atomic.rs 346-352)
HandleGet(h) ==
    /\ arc[h] # 0
    /\ got_by' = [got_by EXCEPT ![h] = Content(arc[h])]
    /\ UNCHANGED <<arc, parent, cell, boxes, last_set, set_by, exported, atomicVars,
                   lockVars, managerVars>>
    /\ Quiet

HandlesUnused ==
    /\ arc = [h \in Handles |-> 0]
    /\ parent = [h \in Handles |-> NoHandle]
    /\ cell = [h \in Handles |-> 0]
    /\ boxes = [a \in HandleAddrs |-> NoValue]
    /\ last_set = [h \in Handles |-> NoValue]
    /\ set_by = [h \in Handles |-> NoHandle]
    /\ got_by = [h \in Handles |-> NoValue]
    /\ exported = [h \in Handles |-> NotExported]
    /\ notified = FALSE
    /\ returned = NoResult

HandlesStep ==
    \E h \in Handles :
        \/ \E v \in Vals : HandleNew(h, v)
        \/ \E g \in Handles : HandleClone(h, g)
        \/ \E v \in Vals : HandleSet(h, v)
        \/ HandleUpdate(h)
        \/ HandleGet(h)

\* ---- a ThreadShare handle exported ---------------------------------------
\* ArcThreadShare::from_arc(h.as_arc()) (core.rs 617-627, atomic.rs 284-286):
\* as_arc clones the value under the read lock into a fresh Box behind a new
\* AtomicPtr; g is an ArcThreadShare handle on that new cell
HandleAsArc(h, g) ==
    /\ kind = "ThreadShare"
    /\ arc[h] # 0 /\ ~IsAtomic(arc[h])
    /\ arc[g] = 0
    /\ arc' = [arc EXCEPT ![g] = g]
    /\ \E a \in {b \in HandleAddrs : boxes[b] = NoValue} :
          /\ boxes' = [boxes EXCEPT ![a] = Content(arc[h])]
          /\ cell' = [cell EXCEPT ![g] = a]
    /\ exported' = [exported EXCEPT ![g] = [how |-> "as_arc", from |-> h]]
    /\ UNCHANGED <<parent, last_set, set_by, got_by, atomicVars, lockVars, managerVars>>
    /\ Quiet

HandleAsArcLocked_Copies(h, g) ==
    /\ kind = "ThreadShare"
    /\ arc[h] # 0 /\ ~IsAtomic(arc[h])
    /\ arc[g] = 0
    /\ arc' = [arc EXCEPT ![g] = g]
    /\ cell' = [cell EXCEPT ![g] = Content(arc[h])]
    /\ parent' = [parent EXCEPT ![g] = h]
    /\ exported' = [exported EXCEPT ![g] = [how |-> "as_arc_locked", from |-> h]]
    /\ UNCHANGED <<boxes, last_set, set_by, got_by, atomicVars, lockVars, managerVars>>
    /\ Quiet

\* ArcThreadShareLocked::from_arc(h.as_arc_locked()) (core.rs 583-585,
\* locked.rs 286-288): Arc::clone of the RwLock cell; g is an
\* ArcThreadShareLocked handle on the cell of h
HandleAsArcLocked(h, g) ==
    /\ kind = "ThreadShare"
    /\ arc[h] # 0 /\ ~IsAtomic(arc[h])
    /\ arc[g] = 0
    /\ arc' = [arc EXCEPT ![g] = arc[h]]
    /\ parent' = [parent EXCEPT ![g] = h]
    /\ exported' = [exported EXCEPT ![g] = [how |-> "as_arc_locked", from |-> h]]
    /\ UNCHANGED <<cell, boxes, last_set, set_by, got_by, atomicVars, lockVars, managerVars>>
    /\ Quiet

\* ArcThreadShare::increment (atomic.rs 450-483) with no other call running: a
\* Box holding the value plus one is exchanged in and the old one is freed
HandleIncrement(h) ==
    /\ arc[h] # 0 /\ IsAtomic(arc[h])
    /\ Content(arc[h]) < MaxVal
    /\ \E a \in {b \in HandleAddrs : boxes[b] = NoValue} :
          /\ boxes' = [boxes EXCEPT ![a] = Content(arc[h]) + 1, ![cell[arc[h]]] = NoValue]
          /\ cell' = [cell EXCEPT ![arc[h]] = a]
    /\ Mutated(h, NoValue)
    /\ UNCHANGED <<arc, parent, exported, atomicVars, lockVars, managerVars>>
    /\ Quiet

ExportStep ==
    \E h \in Handles :
        \/ \E g \in Handles : HandleAsArc(h, g)
        \/ \E g \in Handles : HandleAsArcLocked(h, g)
        \/ HandleIncrement(h)

\* ---- from_json ------------------------------------------------------------
\* The texts passed to from_json: every string of at most JsonLen characters
\* over the digits of the values and a character that no number contains.
DigitChars == <<"0", "1", "2", "3", "4", "5", "6", "7", "8", "9">>
IsDigit(c) == \E i \in 1..10 : DigitChars[i] = c
DigitOf(c) == (CHOOSE i \in 1..10 : DigitChars[i] = c) - 1
JsonChars == {DigitChars[i + 1] : i \in 0..MaxVal} \cup {"x"}
JsonInputs == UNION {[1..n -> JsonChars] : n \in 0..JsonLen}

\* the number a string of digits writes in base ten
RECURSIVE Decimal(_)
Decimal(text) ==
    IF text = <<>> THEN 0
    ELSE 10 * Decimal(SubSeq(text, 1, Len(text) - 1)) + DigitOf(text[Len(text)])

\* serde_json::from_str::<T>(json) for T an unsigned integer type whose values
\* are Vals: the text has to be a JSON number (digits, no leading zero) that
\* the type can hold
Deserialize(json) ==
    IF /\ json # <<>>
       /\ \A i \in 1..Len(json) : IsDigit(json[i])
       /\ (Len(json) > 1 => json[1] # "0")
       /\ Decimal(json) \in Vals
    THEN [ok |-> TRUE, value |-> Decimal(json)]
    ELSE [ok |-> FALSE, value |-> NoValue]

HasFromJson == {"ThreadShare", "ArcThreadShare", "ArcThreadShareLocked"}

HandleFromJson_SetsDefaultOnError(h, json) ==
    /\ arc[h] # 0
    /\ TypeOf(h) \in HasFromJson
    /\ LET r == Deserialize(json) IN
         IF TypeOf(h) = "ThreadShare"
         THEN /\ cell' = [cell EXCEPT ![arc[h]] = IF r.ok THEN r.value ELSE 0]
              /\ Mutated(h, IF r.ok THEN r.value ELSE 0)
              /\ notified' = TRUE
              /\ returned' = [handle |-> h, json |-> json, result |-> IF r.ok THEN "Ok" ELSE "Err",
                              value |-> r.value]
              /\ UNCHANGED boxes
         ELSE /\ returned' = [handle |-> h, json |-> json, result |-> IF r.ok THEN "Ok" ELSE "Err",
                              value |-> r.value]
              /\ notified' = FALSE
              /\ UNCHANGED <<cell, boxes, last_set, set_by, got_by>>
    /\ UNCHANGED <<arc, parent, exported, atomicVars, lockVars, managerVars>>

\* ThreadShare::from_json (core.rs 183-189): the text is deserialized, `?`
\* returns the error, otherwise self.set(deserialized) and Ok(()).
\* ArcThreadShare::from_json (atomic.rs 555-561) and
\* ArcThreadShareLocked::from_json (locked.rs 585-588) return what
\* serde_json::from_str(json) returned and do nothing else.
HandleFromJson(h, json) ==
    /\ arc[h] # 0
    /\ TypeOf(h) \in HasFromJson
    /\ LET r == Deserialize(json) IN
         IF r.ok /\ TypeOf(h) = "ThreadShare"
         THEN /\ cell' = [cell EXCEPT ![arc[h]] = r.value]
              /\ Mutated(h, r.value)
              /\ notified' = TRUE
              /\ returned' = [handle |-> h, json |-> json, result |-> "Ok",
                              value |-> r.value]
              /\ UNCHANGED boxes
         ELSE /\ returned' = [handle |-> h, json |-> json, result |-> IF r.ok THEN "Ok" ELSE "Err",
                              value |-> r.value]
              /\ notified' = FALSE
              /\ UNCHANGED <<cell, boxes, last_set, set_by, got_by>>
    /\ UNCHANGED <<arc, parent, exported, atomicVars, lockVars, managerVars>>

\* new(0) cloned once for every other handle (serialization_tests.rs 36-47
\* makes the value, thread_share_tests.rs 17-43 the clones)
JsonStart ==
    /\ arc = [h \in Handles |-> 1]
    /\ parent = [h \in Handles |-> IF h = 1 THEN NoHandle ELSE 1]
    /\ cell = [c \in Handles |-> IF c = 1 /\ kind = "ArcThreadShare" THEN 1 ELSE 0]
    /\ boxes = [a \in HandleAddrs |->
                 IF a = 1 /\ kind = "ArcThreadShare" THEN 0 ELSE NoValue]
    /\ last_set = [h \in Handles |-> NoValue]
    /\ set_by = [h \in Handles |-> NoHandle]
    /\ got_by = [h \in Handles |-> NoValue]
    /\ exported = [h \in Handles |-> NotExported]
    /\ notified = FALSE
    /\ returned = NoResult

JsonStep ==
    \E h \in Handles :
        \/ \E v \in Vals : HandleSet(h, v)
        \/ HandleUpdate(h)
        \/ HandleGet(h)
        \/ \E json \in JsonInputs : HandleFromJson(h, json)


(***************************************************************************)
(* WorkerManager (worker_manager.rs): callers sharing one manager          *)
(***************************************************************************)
WCallers == 1..WmCallers
WNames == {"a", "b"}
NoCaller == 0

NoWmCall == [op |-> "none", name |-> ""]
NoWmResult == [op |-> "none", name |-> "", result |-> "none", count |-> 0,
               names |-> {}, paused |-> FALSE]

\* the first statement of the methods that use `threads`, and what follows it
WmBody(op) ==
    CASE op = "add_worker" -> "contains_key"
      [] op = "remove_worker" -> "remove"
      [] op = "remove_all_workers" -> "clear"
      [] op = "get_worker_names" -> "keys"
      [] OTHER -> "len"

\* a caller starts one of the methods that begin with self.threads.lock()
WmBegin(c, op, name) ==
    /\ wm_pc[c] = "idle"
    /\ wm_left[c] > 0
    /\ wm_pc' = [wm_pc EXCEPT ![c] = "lock"]
    /\ wm_call' = [wm_call EXCEPT ![c] = [op |-> op, name |-> name]]
    /\ UNCHANGED <<wm_threads, paused_workers, wm_mutex, wm_left, wm_result, adds_ok>>

AddWorker(c, name) ==
    /\ WmBegin(c, "add_worker", name)
    /\ UNCHANGED <<atomicVars, lockVars, handleVars, spawnVars>>

RemoveWorker(c, name) ==
    /\ WmBegin(c, "remove_worker", name)
    /\ UNCHANGED <<atomicVars, lockVars, handleVars, spawnVars>>

RemoveAllWorkers(c) ==
    /\ WmBegin(c, "remove_all_workers", "")
    /\ UNCHANGED <<atomicVars, lockVars, handleVars, spawnVars>>

GetWorkerNames(c) ==
    /\ WmBegin(c, "get_worker_names", "")
    /\ UNCHANGED <<atomicVars, lockVars, handleVars, spawnVars>>

ActiveWorkers(c) ==
    /\ WmBegin(c, "active_workers", "")
    /\ UNCHANGED <<atomicVars, lockVars, handleVars, spawnVars>>

WmLock_NoMutex(c) ==
    /\ wm_pc[c] = "lock"
    /\ wm_mutex' = c
    /\ wm_pc' = [wm_pc EXCEPT ![c] = WmBody(wm_call[c].op)]
    /\ UNCHANGED <<wm_threads, paused_workers, wm_call, wm_left, wm_result, adds_ok>>
    /\ UNCHANGED <<atomicVars, lockVars, handleVars, spawnVars>>

\* let mut threads = self.threads.lock().unwrap();
WmLock(c) ==
    /\ wm_pc[c] = "lock"
    /\ wm_mutex = NoCaller
    /\ wm_mutex' = c
    /\ wm_pc' = [wm_pc EXCEPT ![c] = WmBody(wm_call[c].op)]
    /\ UNCHANGED <<wm_threads, paused_workers, wm_call, wm_left, wm_result, adds_ok>>
    /\ UNCHANGED <<atomicVars, lockVars, handleVars, spawnVars>>

\* the method returns `result`; the guard `threads` is dropped
WmReturn(c, result) ==
    /\ wm_pc' = [wm_pc EXCEPT ![c] = "idle"]
    /\ wm_mutex' = IF wm_mutex = c THEN NoCaller ELSE wm_mutex
    /\ wm_left' = [wm_left EXCEPT ![c] = @ - 1]
    /\ wm_result' = [wm_result EXCEPT ![c] = result]
    /\ wm_call' = [wm_call EXCEPT ![c] = NoWmCall]
    /\ UNCHANGED <<atomicVars, lockVars, handleVars, spawnVars>>

WmAnswer(c, r) == [NoWmResult EXCEPT !.op = wm_call[c].op, !.name = wm_call[c].name,
                                      !.result = r]

\* add_worker (worker_manager.rs 328-338):
\* if threads.contains_key(name) { return Err(format!("Worker '{}' already exists", name)); }
AddContainsKey(c) ==
    /\ wm_pc[c] = "contains_key"
    /\ IF wm_call[c].name \in wm_threads
       THEN WmReturn(c, WmAnswer(c, "Err: already exists"))
       ELSE /\ wm_pc' = [wm_pc EXCEPT ![c] = "insert"]
            /\ UNCHANGED <<wm_mutex, wm_left, wm_result, wm_call>>
            /\ UNCHANGED <<atomicVars, lockVars, handleVars, spawnVars>>
    /\ UNCHANGED <<wm_threads, paused_workers, adds_ok>>

\* threads.insert(name.to_string(), handle); Ok(())
AddInsert(c) ==
    /\ wm_pc[c] = "insert"
    /\ wm_threads' = wm_threads \cup {wm_call[c].name}
    /\ adds_ok' = [adds_ok EXCEPT ![wm_call[c].name] = @ + 1]
    /\ WmReturn(c, WmAnswer(c, "Ok"))
    /\ UNCHANGED paused_workers

RemoveEntry_ClearsMap(c) ==
    /\ wm_pc[c] = "remove"
    /\ IF wm_call[c].name \in wm_threads
       THEN /\ wm_threads' = {}
            /\ adds_ok' = [n \in WNames |-> 0]
            /\ WmReturn(c, WmAnswer(c, "Ok"))
       ELSE /\ WmReturn(c, WmAnswer(c, "Err: not found"))
            /\ UNCHANGED <<wm_threads, adds_ok>>
    /\ UNCHANGED paused_workers

\* remove_worker (worker_manager.rs 431-439):
\* if threads.remove(name).is_some() { Ok(()) } else { Err(format!("Worker '{}' not found", name)) }
RemoveEntry(c) ==
    /\ wm_pc[c] = "remove"
    /\ IF wm_call[c].name \in wm_threads
       THEN /\ wm_threads' = wm_threads \ {wm_call[c].name}
            /\ adds_ok' = [adds_ok EXCEPT ![wm_call[c].name] = 0]
            /\ WmReturn(c, WmAnswer(c, "Ok"))
       ELSE /\ WmReturn(c, WmAnswer(c, "Err: not found"))
            /\ UNCHANGED <<wm_threads, adds_ok>>
    /\ UNCHANGED paused_workers

\* remove_all_workers (worker_manager.rs 465-471): threads.clear(); Ok(())
ClearEntries(c) ==
    /\ wm_pc[c] = "clear"
    /\ wm_threads' = {}
    /\ adds_ok' = [n \in WNames |-> 0]
    /\ WmReturn(c, [WmAnswer(c, "Ok") EXCEPT !.count = Cardinality(wm_threads)])
    /\ UNCHANGED paused_workers

\* get_worker_names (worker_manager.rs 495-498): threads.keys().cloned().collect()
Keys(c) ==
    /\ wm_pc[c] = "keys"
    /\ WmReturn(c, [WmAnswer(c, "Ok") EXCEPT !.names = wm_threads])
    /\ UNCHANGED <<wm_threads, paused_workers, adds_ok>>

\* active_workers (worker_manager.rs 519-522): threads.len()
CountEntries(c) ==
    /\ wm_pc[c] = "len"
    /\ WmReturn(c, [WmAnswer(c, "Ok") EXCEPT !.count = Cardinality(wm_threads)])
    /\ UNCHANGED <<wm_threads, paused_workers, adds_ok>>

\* The methods on `paused_workers` lock its Mutex, make one call on the map and
\* return: one step each.
PausedCall(c, op, name, paused_after, answer) ==
    /\ wm_pc[c] = "idle"
    /\ wm_left[c] > 0
    /\ paused_workers' = paused_after
    /\ wm_left' = [wm_left EXCEPT ![c] = @ - 1]
    /\ wm_result' = [wm_result EXCEPT ![c] =
                       [NoWmResult EXCEPT !.op = op, !.name = name, !.result = "Ok",
                                          !.paused = answer]]
    /\ UNCHANGED <<wm_threads, wm_mutex, wm_pc, wm_call, adds_ok>>

\* pause_worker (worker_manager.rs 366-371): paused.insert(name.to_string(), true); Ok(())
PauseWorker(c, name) ==
    /\ PausedCall(c, "pause_worker", name, paused_workers \cup {name}, FALSE)
    /\ UNCHANGED <<atomicVars, lockVars, handleVars, spawnVars>>

\* resume_worker (worker_manager.rs 397-402): paused.remove(name); Ok(())
ResumeWorker(c, name) ==
    /\ PausedCall(c, "resume_worker", name, paused_workers \ {name}, FALSE)
    /\ UNCHANGED <<atomicVars, lockVars, handleVars, spawnVars>>

\* is_worker_paused (worker_manager.rs 555-558): paused.contains_key(name)
IsWorkerPaused(c, name) ==
    /\ PausedCall(c, "is_worker_paused", name, paused_workers, name \in paused_workers)
    /\ UNCHANGED <<atomicVars, lockVars, handleVars, spawnVars>>

\* WorkerManager::new (worker_manager.rs 288-293) over an empty map, cloned to
\* every caller (605-612)
WorkersStart ==
    /\ wm_threads = {}
    /\ paused_workers = {}
    /\ wm_mutex = NoCaller
    /\ wm_pc = [c \in WCallers |-> "idle"]
    /\ wm_call = [c \in WCallers |-> NoWmCall]
    /\ wm_left = [c \in WCallers |-> WmOps]
    /\ wm_result = [c \in WCallers |-> NoWmResult]
    /\ adds_ok = [n \in WNames |-> 0]

WorkersUnused ==
    /\ wm_threads = {}
    /\ paused_workers = {}
    /\ wm_mutex = NoCaller
    /\ wm_pc = <<>>
    /\ wm_call = <<>>
    /\ wm_left = <<>>
    /\ wm_result = <<>>
    /\ adds_ok = <<>>

WorkersStep ==
    \E c \in WCallers :
        \/ \E n \in WNames : AddWorker(c, n)
        \/ \E n \in WNames : RemoveWorker(c, n)
        \/ RemoveAllWorkers(c)
        \/ GetWorkerNames(c)
        \/ ActiveWorkers(c)
        \/ WmLock(c)
        \/ AddContainsKey(c)
        \/ AddInsert(c)
        \/ RemoveEntry(c)
        \/ ClearEntries(c)
        \/ Keys(c)
        \/ CountEntries(c)
        \/ \E n \in WNames : PauseWorker(c, n)
        \/ \E n \in WNames : ResumeWorker(c, n)
        \/ \E n \in WNames : IsWorkerPaused(c, n)

(***************************************************************************)
(* EnhancedThreadShare (enhanced.rs) and ThreadManager (thread_pool.rs):   *)
(* spawn, join_all, active_threads, is_complete called by the owner while  *)
(* the spawned threads run.  The two types have the same `threads` field   *)
(* and the same code for these methods.                                    *)
(***************************************************************************)
SpawnIds == 1..MaxSpawns
SpawnNames == {"a", "b"}
NoSpawn == 0

NoMainCall == [name |-> "", handle |-> NoSpawn, thread_handles |-> <<>>]
NoMainResult == [op |-> "none", result |-> "none", len |-> 0, is_empty |-> FALSE]

Running == {i \in SpawnIds : thread_state[i] = "running"}
Spawned == {i \in SpawnIds : thread_state[i] # "unborn"}

\* the sequences that list every element of S once: the orders in which
\* HashMap::drain may yield the entries
RECURSIVE Orders(_)
Orders(S) ==
    IF S = {} THEN {<<>>}
    ELSE UNION {{<<x>> \o rest : rest \in Orders(S \ {x})} : x \in S}

MainReturn(op, result) ==
    /\ main_pc' = "idle"
    /\ main_call' = NoMainCall
    /\ main_result' = [NoMainResult EXCEPT !.op = op, !.result = result]

\* spawn (enhanced.rs 339-353, thread_pool.rs 395-409):
\* let handle = thread::spawn(move || { f(thread_data); });
Spawn(name) ==
    /\ main_pc = "idle"
    /\ \E i \in SpawnIds :
          /\ thread_state[i] = "unborn"
          /\ \A j \in SpawnIds : j < i => thread_state[j] # "unborn"
          /\ thread_state' = [thread_state EXCEPT ![i] = "running"]
          /\ main_call' = [NoMainCall EXCEPT !.name = name, !.handle = i]
    /\ main_pc' = "insert"
    /\ main_result' = NoMainResult
    /\ UNCHANGED <<threads_map, detached, spawned_before, joins_left>>
    /\ UNCHANGED <<atomicVars, lockVars, handleVars, workerVars>>

\* self.threads.lock().unwrap().insert(thread_name, handle); Ok(())
\* HashMap::insert returns the value that was stored under the key; it is not
\* bound, so that JoinHandle is dropped, which detaches its thread.
SpawnInsert ==
    /\ main_pc = "insert"
    /\ threads_map' = [threads_map EXCEPT ![main_call.name] = main_call.handle]
    /\ detached' = detached \cup ({threads_map[main_call.name]} \ {NoSpawn})
    /\ MainReturn("spawn", "Ok")
    /\ UNCHANGED <<thread_state, spawned_before, joins_left>>
    /\ UNCHANGED <<atomicVars, lockVars, handleVars, workerVars>>

\* join_all (enhanced.rs 456-468, thread_pool.rs 474-485) is called
JoinAll ==
    /\ main_pc = "idle"
    /\ joins_left > 0
    /\ joins_left' = joins_left - 1
    /\ spawned_before' = Spawned
    /\ main_pc' = "drain"
    /\ main_result' = NoMainResult
    /\ UNCHANGED <<threads_map, thread_state, detached, main_call>>
    /\ UNCHANGED <<atomicVars, lockVars, handleVars, workerVars>>

\* let mut threads = self.threads.lock().unwrap();
\* let thread_handles: Vec<_> = threads.drain().collect(); drop(threads);
Drain ==
    /\ main_pc = "drain"
    /\ \E order \in Orders({threads_map[n] : n \in SpawnNames} \ {NoSpawn}) :
          main_call' = [NoMainCall EXCEPT !.thread_handles = order]
    /\ threads_map' = [n \in SpawnNames |-> NoSpawn]
    /\ main_pc' = "join"
    /\ UNCHANGED <<thread_state, detached, main_result, spawned_before, joins_left>>
    /\ UNCHANGED <<atomicVars, lockVars, handleVars, workerVars>>

\* for (name, handle) in thread_handles { let result = handle.join(); ... }
\* join blocks until the thread has ended; if it panicked, join_all returns the
\* error and the handles not yet joined are dropped
Join ==
    /\ main_pc = "join"
    /\ main_call.thread_handles # <<>>
    /\ LET i == Head(main_call.thread_handles) IN
         /\ thread_state[i] # "running"
         /\ IF thread_state[i] = "panicked"
            THEN /\ MainReturn("join_all", "Err")
                 /\ detached' = detached \cup
                       {main_call.thread_handles[k] : k \in 2..Len(main_call.thread_handles)}
            ELSE /\ main_call' = [main_call EXCEPT !.thread_handles = Tail(@)]
                 /\ UNCHANGED <<main_pc, main_result, detached>>
    /\ UNCHANGED <<threads_map, thread_state, spawned_before, joins_left>>
    /\ UNCHANGED <<atomicVars, lockVars, handleVars, workerVars>>

\* Ok(()) after the loop
JoinAllReturn ==
    /\ main_pc = "join"
    /\ main_call.thread_handles = <<>>
    /\ MainReturn("join_all", "Ok")
    /\ UNCHANGED <<threads_map, thread_state, detached, spawned_before, joins_left>>
    /\ UNCHANGED <<atomicVars, lockVars, handleVars, workerVars>>

\* active_threads (enhanced.rs 497-499, thread_pool.rs 518-520) is called
ActiveThreads ==
    /\ main_pc = "idle"
    /\ main_pc' = "len"
    /\ main_result' = NoMainResult
    /\ UNCHANGED <<threads_map, thread_state, detached, main_call, spawned_before, joins_left>>
    /\ UNCHANGED <<atomicVars, lockVars, handleVars, workerVars>>

\* self.threads.lock().unwrap().len()
ThreadsLen ==
    /\ main_pc = "len"
    /\ main_pc' = "idle"
    /\ main_result' = [NoMainResult EXCEPT !.op = "active_threads", !.result = "Ok",
                           !.len = Cardinality({n \in SpawnNames : threads_map[n] # NoSpawn})]
    /\ UNCHANGED <<threads_map, thread_state, detached, main_call, spawned_before, joins_left>>
    /\ UNCHANGED <<atomicVars, lockVars, handleVars, workerVars>>

\* is_complete (enhanced.rs 526-528) is called
IsComplete ==
    /\ main_pc = "idle"
    /\ main_pc' = "is_empty"
    /\ main_result' = NoMainResult
    /\ UNCHANGED <<threads_map, thread_state, detached, main_call, spawned_before, joins_left>>
    /\ UNCHANGED <<atomicVars, lockVars, handleVars, workerVars>>

\* self.threads.lock().unwrap().is_empty()
ThreadsIsEmpty ==
    /\ main_pc = "is_empty"
    /\ main_pc' = "idle"
    /\ main_result' = [NoMainResult EXCEPT !.op = "is_complete", !.result = "Ok",
                           !.is_empty = \A n \in SpawnNames : threads_map[n] = NoSpawn]
    /\ UNCHANGED <<threads_map, thread_state, detached, main_call, spawned_before, joins_left>>
    /\ UNCHANGED <<atomicVars, lockVars, handleVars, workerVars>>

\* the closure f(thread_data) of a spawned thread returns
ThreadFinish(i) ==
    /\ thread_state[i] = "running"
    /\ thread_state' = [thread_state EXCEPT ![i] = "finished"]
    /\ UNCHANGED <<threads_map, detached, main_pc, main_call, main_result, spawned_before,
                   joins_left>>
    /\ UNCHANGED <<atomicVars, lockVars, handleVars, workerVars>>

\* the closure of a spawned thread panics
ThreadPanic(i) ==
    /\ thread_state[i] = "running"
    /\ thread_state' = [thread_state EXCEPT ![i] = "panicked"]
    /\ UNCHANGED <<threads_map, detached, main_pc, main_call, main_result, spawned_before,
                   joins_left>>
    /\ UNCHANGED <<atomicVars, lockVars, handleVars, workerVars>>

\* EnhancedThreadShare::new (enhanced.rs 286-291), ThreadManager::new
\* (thread_pool.rs 337-342): `threads` is an empty map
SpawnStart ==
    /\ threads_map = [n \in SpawnNames |-> NoSpawn]
    /\ thread_state = [i \in SpawnIds |-> "unborn"]
    /\ detached = {}
    /\ main_pc = "idle"
    /\ main_call = NoMainCall
    /\ main_result = NoMainResult
    /\ spawned_before = {}
    /\ joins_left = MaxJoins

SpawnUnused ==
    /\ threads_map = <<>>
    /\ thread_state = <<>>
    /\ detached = {}
    /\ main_pc = "none"
    /\ main_call = NoMainCall
    /\ main_result = NoMainResult
    /\ spawned_before = {}
    /\ joins_left = 0

SpawnStep ==
    \/ \E n \in SpawnNames : Spawn(n)
    \/ SpawnInsert
    \/ JoinAll
    \/ Drain
    \/ Join
    \/ JoinAllReturn
    \/ ActiveThreads
    \/ ThreadsLen
    \/ IsComplete
    \/ ThreadsIsEmpty
    \/ \E i \in SpawnIds : ThreadFinish(i)
    \/ \E i \in SpawnIds : ThreadPanic(i)

ManagerUnused == WorkersUnused /\ SpawnUnused

(***************************************************************************)
(* Specifications                                                          *)
(***************************************************************************)
\* the part a specification does not exercise stays as it is
AtomicUnused ==
    /\ atomic_data = Null
    /\ heap = <<>>
    /\ allocated = {}
    /\ apc = <<>>
    /\ frame = <<>>
    /\ ops_left = <<>>
    /\ all_increment = TRUE
    /\ removed = {}
    /\ freed_twice = FALSE
    /\ freed_wrong = FALSE
    /\ use_after_free = {}
    /\ clones = 0
    /\ observed = {}
    /\ overlap = <<>>

LockUnused ==
    /\ kind = "none"
    /\ LockShared({}, <<>>)

InitAtomic == AtomicStart /\ LockUnused /\ HandlesUnused /\ ManagerUnused
NextAtomic == AtomicStep
SpecAtomic == InitAtomic /\ [][NextAtomic]_vars

NextUpdateOnly == UpdateOnlyStep
InitUpdateOnly == UpdateOnlyStart /\ LockUnused /\ HandlesUnused /\ ManagerUnused
SpecUpdateOnly == InitUpdateOnly /\ [][NextUpdateOnly]_vars

InitChurn == AtomicStart /\ LockUnused /\ HandlesUnused /\ ManagerUnused
NextChurn == ChurnStep
SpecChurn == InitChurn /\ [][NextChurn]_vars

InitProgress == AtomicStart /\ LockUnused /\ HandlesUnused /\ ManagerUnused
NextProgress == ProgressStep
SpecProgress == InitProgress /\ [][NextProgress]_vars /\ FairScheduler

InitNull == AtomicNullStart /\ LockUnused /\ HandlesUnused /\ ManagerUnused
SpecNull == InitNull /\ [][NextAtomic]_vars

InitLocked == LockedStart /\ AtomicUnused /\ HandlesUnused /\ ManagerUnused
NextLocked == LockedStep
SpecLocked == InitLocked /\ [][NextLocked]_vars

InitOrder == OrderStart /\ AtomicUnused /\ HandlesUnused /\ ManagerUnused
NextOrder == OrderStep
SpecOrder == InitOrder /\ [][NextOrder]_vars

NextPanic == LockedStep \/ PanicStep
SpecPanic == InitLocked /\ [][NextPanic]_vars

InitFair == FairStart /\ AtomicUnused /\ HandlesUnused /\ ManagerUnused
NextFair == FairStep
SpecFair == InitFair /\ [][NextFair]_vars /\ FairLocks

InitGuards == GuardStart /\ AtomicUnused /\ HandlesUnused /\ ManagerUnused
NextGuards == GuardStep
SpecGuards == InitGuards /\ [][NextGuards]_vars

InitNotify == NotifyStart /\ AtomicUnused /\ HandlesUnused /\ ManagerUnused
NextNotify == NotifyStep
SpecNotify == InitNotify /\ [][NextNotify]_vars

NextQuiet == QuietStep
SpecQuiet == InitNotify /\ [][NextQuiet]_vars

InitHandles == HandlesUnused /\ AtomicUnused /\ kind \in AllKinds /\ LockShared({}, <<>>) /\ ManagerUnused
NextHandles == HandlesStep
SpecHandles == InitHandles /\ [][NextHandles]_vars

InitExport == HandlesUnused /\ AtomicUnused /\ kind = "ThreadShare" /\ LockShared({}, <<>>) /\ ManagerUnused
NextExport == HandlesStep \/ ExportStep
SpecExport == InitExport /\ [][NextExport]_vars

InitJson == kind \in HasFromJson /\ LockShared({}, <<>>) /\ JsonStart /\ AtomicUnused /\ ManagerUnused
NextJson == JsonStep
SpecJson == InitJson /\ [][NextJson]_vars

InitWorkers == WorkersStart /\ SpawnUnused /\ AtomicUnused /\ LockUnused /\ HandlesUnused
NextWorkers == WorkersStep
SpecWorkers == InitWorkers /\ [][NextWorkers]_vars

InitSpawn == SpawnStart /\ WorkersUnused /\ AtomicUnused /\ LockUnused /\ HandlesUnused
NextSpawn == SpawnStep
SpecSpawn == InitSpawn /\ [][NextSpawn]_vars

(***************************************************************************)
(* Claims on ArcThreadShare                                                *)
(***************************************************************************)

\* C2: when every thread has made all its calls and every call was
\* increment(), the value in the slot is the number of calls,
\* AtomicThreads * AtomicOps (the value started at 0).
C2_IncrementCountsEveryCall ==
    (AtomicDone /\ all_increment) => heap[atomic_data] = AtomicThreads * AtomicOps

\* the box a thread has taken out of the slot and is about to free
PendingFree(t) ==
    CASE apc[t] = "set_free" -> {frame[t].old_ptr} \ {Null}
      [] apc[t] = "cas_free_old" -> {frame[t].ptr}
      [] OTHER -> {}

\* C9: a box is freed only by the call whose swap took it out of the slot, and
\* once: no free hits an address that is not allocated, no free hits a box
\* other than the one the freeing call removed (on the failure path: its own
\* candidate, which never was in the slot), the box in the slot is allocated,
\* every removed box is still allocated, is awaited by exactly one call that
\* is about to free it, and none is left once all calls have returned.
C9_SwapFreesWhatItRemoved ==
    /\ ~freed_twice
    /\ ~freed_wrong
    /\ atomic_data \in allocated
    /\ atomic_data \notin removed
    /\ removed \subseteq allocated
    /\ removed = UNION {PendingFree(t) : t \in ATh}
    /\ \A t, u \in ATh : t # u => PendingFree(t) \cap PendingFree(u) = {}
    /\ AtomicDone => removed = {}

\* C9 witness: two removed boxes wait for their frees at once, one taken out
\* by a successful compare-exchange and one by the swap of set(), and an
\* earlier free has already given an address back.
C9_TwoPendingFrees ==
    \E t, u \in ATh :
        /\ apc[t] = "cas_free_old"
        /\ apc[u] = "set_free"
        /\ Cardinality(removed) = 2
        /\ ops_left[u] < AtomicOps

\* C10: neither get() nor the read at the start of an increment()/add()
\* iteration ever dereferences an address that has been freed.
C10_NoReadOfFreedBox == use_after_free = {}


\* C11: a compare_exchange of increment()/add() succeeds only when the slot
\* still holds what the iteration read: at a successful exchange the value the
\* iteration read is the value in the slot at that moment.
C11_ExchangeSucceedsOnValueRead ==
    [][\A t \in ATh :
          (apc[t] = "cas_exchange" /\ apc'[t] = "cas_free_old")
              => frame[t].current_value = heap[atomic_data]]_vars

\* C12: when only update(|x| *x += 1) is called, AtomicThreads threads times
\* UpdateOps calls on a value started at 0, the value after all threads have
\* finished lies in 1 .. AtomicThreads * UpdateOps.
C12_UpdateResultInRange ==
    AtomicDone => heap[atomic_data] \in 1..(AtomicThreads * UpdateOps)

\* every update counted: the upper end of the range is reached
C12_UpdateResultFull == AtomicDone /\ heap[atomic_data] = AtomicThreads * UpdateOps

\* C13: update() does its read-modify-write with no lock and no compare-and-swap:
\* its store puts the value it read plus one into the Box, whatever another
\* update stored there in between (which is how an update gets lost).
C13_UpdateStoresOverOthers ==
    [][\A t \in ATh :
          (apc[t] = "closure_store" /\ apc'[t] = "idle")
              => heap'[atomic_data] = frame[t].current_value + 1]_vars

\* all updates made, and the value is below the number of update calls
C13_UpdateLost == AtomicDone /\ heap[atomic_data] < AtomicThreads * UpdateOps

\* C17: the slot of an ArcThreadShare made by new() never holds the null
\* pointer, whatever get/set/update/read/write/increment/add calls interleave.
C17_SlotNeverNull == atomic_data # Null

\* a set() has swapped and an update() is in mid-closure on a slot that has been
\* replaced since ArcThreadShare::new
C17_SlotReplaced ==
    \E t, u \in ATh :
        /\ apc[t] = "set_free"
        /\ apc[u] = "closure_store"
        /\ ops_left[u] < AtomicOps
        /\ atomic_data \notin {Null, 1}

\* C18: a get/read/write/update/increment/add call that finds the null pointer
\* in the slot panics: it does not return normally and does not go on to
\* dereference the pointer.
C18_NullCallPanics ==
    [][\A t \in ATh :
          (atomic_data = Null /\ apc[t] = "idle" /\ <<apc[t], ops_left[t]>>' # <<apc[t], ops_left[t]>>)
              => apc'[t] \in {"panicked", "set_swap"}]_vars

\* C23: while the value has a handle and no set/increment/add call is running,
\* the allocations made for it and not freed are exactly one, the Box the slot
\* points to, whatever handles were cloned and dropped and however the
\* completed set/increment/add calls interleaved.
C23_OneLiveAllocation ==
    (StrongCount > 0 /\ \A t \in ATh : apc[t] \in {"idle", "dropped"})
        => allocated = {atomic_data}

\* both threads have made all their calls, one has dropped its handle, a clone
\* is kept aside, and the slot holds a Box made by one of the calls
C23_QuietAfterChurn ==
    /\ \A t \in ATh : ops_left[t] = 0 /\ apc[t] \in {"idle", "dropped"}
    /\ \E t \in ATh : apc[t] = "dropped"
    /\ clones > 0
    /\ heap[atomic_data] > 0

(***************************************************************************)
(* Claims on the lock-based types                                          *)
(***************************************************************************)
\* C1: on ThreadShare, ArcThreadShareLocked and SimpleShare alike, once all
\* LockWriters threads have finished their LockOps calls of update(|x| *x += 1)
\* on a value started at 0, the value is exactly LockWriters * LockOps, and a
\* get() that reads it then returns that number, whatever the interleaving and
\* whatever a concurrent get() did in the meantime.
C1_LockedUpdatesAllCounted ==
    LockedDone =>
        /\ data = LockWriters * LockOps
        /\ seen_ver[LReader] = ver => got[LReader] = LockWriters * LockOps

\* the reader polled while the writers ran, and its get() after they had all
\* finished returned the full count
C1_ReaderSeesFullCount ==
    /\ LockedDone
    /\ calls_left[LReader] = 0
    /\ seen_ver[LReader] = ver
    /\ got[LReader] = LockWriters * LockOps

\* C16: on ThreadShare and ArcThreadShareLocked no other thread is inside its
\* critical section while a writer (the closure of update, the assignment of
\* set) is inside its own; on SimpleShare no two threads are ever inside their
\* critical sections at once.
C16_WriterExcludesAll ==
    \A t, u \in DOMAIN lpc :
        (t # u /\ InCritical(t) /\ InCritical(u))
            => kind # "SimpleShare" /\ ~Writing(t) /\ ~Writing(u)

\* a writer is between the load and the store of its closure while the reader
\* has called get() and waits for the lock
C16_ReaderKeptOut ==
    \E w \in LWriters :
        /\ Statement(w) = "closure_write"
        /\ Statement(LReader) \in {"read", "lock"}

\* C19: on ThreadShare and ArcThreadShareLocked a panic in the closure of
\* update() leaves the lock released: the lock is only ever held by a thread
\* that is inside its critical section, never by one that has panicked, and
\* nothing is poisoned.
C19_PanicReleasesLock ==
    kind # "SimpleShare" =>
        /\ ~poisoned
        /\ lock_writer # NoThread => InCritical(lock_writer)
        /\ \A r \in lock_readers : InCritical(r)
        /\ \A t \in panicked : t # lock_writer /\ t \notin lock_readers

\* after a writer's closure panicked, another writer is inside its update() and
\* the reader's get() has returned what that writer wrote before
C19_OthersGoOn ==
    /\ kind # "SimpleShare"
    /\ panicked # {}
    /\ \E u \in LWriters \ panicked : Statement(u) = "closure_write" /\ calls_left[u] < LockOps
    /\ got[LReader] > 0

\* C20: once an update() closure has panicked holding the SimpleShare mutex, the
\* mutex stays poisoned and every get/set/update that comes to lock it panics:
\* none gets past the lock, none returns a value, none changes the data.
C20_PoisonStopsAll ==
    [][poisoned =>
          /\ poisoned'
          /\ data' = data /\ got' = got
          /\ \A t \in DOMAIN lpc :
                (lpc[t] = 1 /\ lpc'[t] # 1) => t \in panicked']_vars

\* the reader's get() and a writer's later call have panicked on the poisoned mutex
C20_LaterCallsPanicked ==
    /\ poisoned
    /\ LReader \in panicked
    /\ Cardinality(panicked) = LockWriters + 1

\* C24: on the lock-based types, while one thread calls set(1), set(2), ..,
\* set(OrderSets) through one handle, the values the successive get() calls of
\* another thread return through a clone never go down, and a get() that reads
\* after the writer has finished returns OrderSets.
C24_ReaderNeverGoesBack ==
    [][/\ got'[OReader] >= got[OReader]
       /\ (OWriterDone /\ Statement(OReader) = "clone" /\ lpc'[OReader] # lpc[OReader])
              => got'[OReader] = OrderSets]_vars

\* the writer has finished, and the last get() of the reader read after the
\* last write and returned its value
C24_ReaderSawProgress ==
    /\ OWriterDone
    /\ got[OReader] = OrderSets
    /\ seen_ver[OReader] = OrderSets
    /\ calls_left[OReader] = 0

(***************************************************************************)
(* Claims on WorkerManager                                                 *)
(***************************************************************************)
\* caller c returns, in this step, from the method whose last statement is `at`
WmReturns(c, at) == wm_pc[c] \in at /\ wm_pc'[c] = "idle"

\* C26: add_worker(name, handle) with a name that is already tracked returns
\* Err("Worker '<name>' already exists") and leaves the registry as it was; one
\* that returns Ok found the name untracked and adds exactly it; and of the
\* add_worker calls made for one name from several threads, one returns Ok.
C26_DuplicateAddRejected ==
    [][\A c \in WCallers :
          WmReturns(c, {"contains_key", "insert"}) =>
              /\ wm_call[c].name \in wm_threads =>
                    /\ wm_result'[c].result = "Err: already exists"
                    /\ wm_threads' = wm_threads
              /\ wm_result'[c].result = "Ok" =>
                    /\ wm_call[c].name \notin wm_threads
                    /\ wm_threads' = wm_threads \cup {wm_call[c].name}
              /\ \A n \in WNames : adds_ok'[n] = IF n \in wm_threads' THEN 1 ELSE 0]_vars

\* two callers have called add_worker("a", ..): one got Ok, the other the error
C26_OneOfTwoAdded ==
    /\ wm_result[1] = [NoWmResult EXCEPT !.op = "add_worker", !.name = "a", !.result = "Ok"]
    /\ wm_result[2] = [NoWmResult EXCEPT !.op = "add_worker", !.name = "a",
                                         !.result = "Err: already exists"]
    /\ wm_left[1] = WmOps - 1
    /\ wm_left[2] = WmOps - 1

\* C27: remove_worker(name) returns Ok and removes exactly that entry when the
\* name is tracked, and returns Err("Worker '<name>' not found") leaving the
\* registry as it was when it is not; and what active_workers() returns is the
\* number of names get_worker_names() returns on the same registry.
C27_RemoveExactlyThatEntry ==
    [][\A c \in WCallers :
          /\ WmReturns(c, {"remove"}) =>
                IF wm_call[c].name \in wm_threads
                THEN /\ wm_result'[c].result = "Ok"
                     /\ wm_threads' = wm_threads \ {wm_call[c].name}
                ELSE /\ wm_result'[c].result = "Err: not found"
                     /\ wm_threads' = wm_threads
          /\ WmReturns(c, {"len"}) => wm_result'[c].count = Cardinality(wm_threads)
          /\ WmReturns(c, {"keys"}) => wm_result'[c].names = wm_threads]_vars

\* with "a" and "b" tracked, one caller has removed "a" and the other, asking
\* for "a" after that, got the error; "b" is still tracked
C27_SecondRemoveRefused ==
    /\ wm_result[1] = [NoWmResult EXCEPT !.op = "remove_worker", !.name = "a", !.result = "Ok"]
    /\ wm_result[2] = [NoWmResult EXCEPT !.op = "remove_worker", !.name = "a",
                                         !.result = "Err: not found"]
    /\ wm_threads = {"b"}

\* C28: pause_worker(name) and resume_worker(name) return Err when no worker
\* called name is tracked, and Ok when one is; is_worker_paused(name) is true
\* exactly between a pause_worker(name) that returned Ok and the next
\* resume_worker(name).
C28_PauseNeedsTrackedWorker ==
    [][\A c \in WCallers :
          (wm_left'[c] # wm_left[c]
              /\ wm_result'[c].op \in {"pause_worker", "resume_worker"}) =>
                  (wm_result'[c].result = "Ok" <=> wm_result'[c].name \in wm_threads)]_vars

(***************************************************************************)
(* Claims on EnhancedThreadShare and ThreadManager                         *)
(***************************************************************************)
\* C29: when join_all() returns Ok, every thread spawned through the object
\* before the call has finished executing, also when two spawns used one name,
\* and the registry is empty.
C29_JoinAllWaitsForAll ==
    (main_result.op = "join_all" /\ main_result.result = "Ok") =>
        /\ \A i \in spawned_before : thread_state[i] # "running"
        /\ \A n \in SpawnNames : threads_map[n] = NoSpawn

\* C30: active_threads() returns the number of spawned threads that are still
\* running, and is_complete() returns true exactly when every spawned thread
\* has completed, whenever they are called.
C30_ActiveThreadsCountsRunning ==
    [][/\ (main_pc = "len" /\ main_pc' = "idle") => main_result'.len = Cardinality(Running)
       /\ (main_pc = "is_empty" /\ main_pc' = "idle") =>
              (main_result'.is_empty <=> Running = {})]_vars

(***************************************************************************)
(* Claims on handles                                                       *)
(***************************************************************************)
\* C3: on all four types, when the last mutation in a family of handles joined
\* by clone() calls was set(v) through one of them, a get() made since then
\* through any handle of the family has returned v.
C3_CloneTransparency ==
    \A h \in Handles :
        (arc[h] # 0 /\ got_by[h] # NoValue /\ last_set[Root(h)] # NoValue)
            => got_by[h] = last_set[Root(h)]

\* set(MaxVal) through a clone of a clone was read by get() through the handle
\* made by new(), and set() through that one was read through a clone of a clone
C3_SetSeenAcrossChain ==
    \E h, g \in Handles :
        /\ parent[g] # NoHandle /\ parent[parent[g]] = h /\ parent[h] = NoHandle
        /\ \/ set_by[h] = g /\ got_by[h] = MaxVal
           \/ set_by[h] = h /\ got_by[g] = MaxVal
        /\ last_set[h] = MaxVal

\* C14: the ArcThreadShare made from h.as_arc() starts with the value h holds
\* at that moment and has a storage of its own: no call changes what the
\* snapshot holds and what h holds at once.
C14_SnapshotDiverges ==
    [][\A g \in Handles :
          /\ (exported[g].how = "none" /\ exported'[g].how = "as_arc")
                => \E c \in Handles :
                      c = arc'[g] /\ Content(c)' = Content(arc[exported'[g].from])
          /\ exported[g].how = "as_arc"
                => /\ arc[g] # arc[exported[g].from]
                   /\ \/ Content(arc[g])' = Content(arc[g])
                      \/ Content(arc[exported[g].from])' = Content(arc[exported[g].from])]_vars

\* set() was called through the snapshot and through the handle it was taken
\* from, and their get()s have returned different values
C14_SnapshotDiverged ==
    \E g \in Handles :
        /\ exported[g].how = "as_arc"
        /\ set_by[Root(g)] = g
        /\ set_by[Root(exported[g].from)] = exported[g].from
        /\ got_by[g] # NoValue /\ got_by[exported[g].from] # NoValue
        /\ got_by[g] # got_by[exported[g].from]

\* C15: the ArcThreadShareLocked made from h.as_arc_locked() is on the storage
\* of h: with no mutation since, the get()s of the two return the same value,
\* which is the value of the last set() made through either.
C15_LockedCellShared ==
    \A l \in Handles :
        exported[l].how = "as_arc_locked" =>
            /\ arc[l] = arc[exported[l].from]
            /\ \A x, y \in {l, exported[l].from} :
                  got_by[x] # NoValue =>
                      /\ got_by[y] # NoValue => got_by[x] = got_by[y]
                      /\ last_set[Root(l)] # NoValue => got_by[x] = last_set[Root(l)]

\* set() through h was read by get() through the locked handle
C15_LockedCellPropagated ==
    \E l \in Handles :
        /\ exported[l].how = "as_arc_locked"
        /\ set_by[Root(l)] = exported[l].from
        /\ last_set[Root(l)] = MaxVal
        /\ got_by[l] = MaxVal

\* C25: on every type, get() changes nothing (the value, the cell or slot, the
\* Boxes allocated, the handles) and wakes nobody, and get() calls made one
\* after the other through any handles of a family, with no mutation between
\* them, all return the same value.
C25_GetIsIdempotent ==
    [][\A h \in Handles :
          HandleGet(h) =>
              /\ UNCHANGED <<arc, parent, cell, boxes, exported>>
              /\ notified' = FALSE
              /\ \A g \in Family(h) : got_by[g] # NoValue => got_by'[h] = got_by[g]]_vars

\* three handles of one family have each returned from get() since the last
\* mutation, with the same value, the one an update() has left
C25_ThreeGetsAgree ==
    /\ \A h \in Handles : arc[h] = arc[1] /\ arc[h] # 0 /\ got_by[h] = MaxVal
    /\ last_set[Root(1)] = NoValue

\* C21: a from_json call whose text fails to deserialize returns an error,
\* leaves the value that get() returns through every handle as it was, and runs
\* no notify_all, so it wakes no waiter; on ThreadShare, ArcThreadShare and
\* ArcThreadShareLocked alike.
C21_FailedFromJsonChangesNothing ==
    [][(returned'.result # "none" /\ ~Deserialize(returned'.json).ok) =>
          /\ returned'.result = "Err"
          /\ \A g \in Handles : Content(arc[g])' = Content(arc[g])
          /\ notified' = FALSE
          /\ UNCHANGED <<arc, cell, boxes>>]_vars

\* a from_json call on a ThreadShare has failed when the text was a number with
\* a leading zero, and the value set before is still there
C21_FromJsonFailed ==
    /\ returned.result = "Err"
    /\ returned.json = <<"0", "1">>
    /\ kind = "ThreadShare"
    /\ \A g \in Handles : Content(arc[g]) = MaxVal

\* C22: a from_json call whose text deserializes to d replaces the value as
\* set(d) would: right after it, get() through the handle and through every
\* clone returns d; on ThreadShare, ArcThreadShare and ArcThreadShareLocked alike.
C22_FromJsonReplacesValue ==
    [][(returned'.result # "none" /\ Deserialize(returned'.json).ok) =>
          /\ returned'.result = "Ok"
          /\ \A g \in Family(returned'.handle) :
                Content(arc[g])' = Deserialize(returned'.json).value]_vars

(***************************************************************************)
(* Claims on ThreadShare's change notification                             *)
(***************************************************************************)
\* a thread is blocked in wait_for_change_forever() and no set()/update() is
\* left to come
Stuck(w) ==
    /\ w \in parked
    /\ call[w].op = "wait_for_change_forever"
    /\ SettersDone

\* C4: a thread that calls wait_for_change_forever() after a set()/update() has
\* completed, and before any other wait call was made, never ends up blocked
\* with no mutation left to come.
C4_LateWaiterNotStuck == late_waiter # NoThread => ~Stuck(late_waiter)

\* C5: a thread that was inside its wait call, timeout not expired, when a
\* notify_all ran, is woken by it: it is not found blocked in the condvar
\* afterwards.
C5_HeardWaiterNotParked == \A w \in heard : w \notin parked

C7_DisturbedWaitReturnsFalse ==
    \A w \in Waiters : (timed_out[w] # "none" /\ w \in later_heard) => timed_out[w] = "false"

\* the waiter's get() after its wait call has read the value
GetDone(w) ==
    \/ calls_left[w] = 0
    \/ call[w].op = "get" /\ Statement(w) = "unlock"

\* C8: a waiter woken by the notify_all of a set()/update() reads, in a get()
\* issued after its wait returned, the value of that write or of a later one.
C8_WokenWaiterSeesWrite ==
    \A w \in Waiters : (woke_seq[w] > 0 /\ GetDone(w)) => seen_ver[w] >= woke_seq[w]

\* a waiter woken by the second write has read the value after it
C8_WokenWaiterRead ==
    \E w \in Waiters : woke_seq[w] = 2 /\ GetDone(w) /\ seen_ver[w] = 2 /\ timed_out[w] = "false"

\* C31: in ThreadShare::set and ThreadShare::update the notify_all on the
\* condition variable runs after the write lock on the value has been released:
\* the thread that executes notify_all does not hold the write lock.
C31_NotifyAfterUnlock ==
    [][\A t \in DOMAIN lpc :
         (Statement(t) = "notify_all" /\ lpc'[t] # lpc[t]) => lock_writer # t]_vars

\* the candidate of an iteration whose compare-exchange has failed is still
\* allocated, is not in the slot and was not taken out of it
FailedCandidateApart ==
    \A t \in ATh : apc[t] = "cas_free_new" =>
        /\ frame[t].new_ptr \in allocated
        /\ frame[t].new_ptr # atomic_data
        /\ frame[t].new_ptr \notin removed

\* the step after a failed compare-exchange frees the candidate and nothing
\* else, and the loop goes round
FailedCandidateFreed ==
    \A t \in ATh : (apc[t] = "cas_free_new" /\ apc'[t] # apc[t]) =>
        /\ apc'[t] = "cas_load"
        /\ allocated' = allocated \ {frame[t].new_ptr}
        /\ atomic_data' = atomic_data

\* no get()/read() of another thread has read the candidate
FailedCandidateUnseen == \A t \in ATh : apc[t] = "cas_free_new" => t \notin observed

\* C32: when the compare-exchange of an increment()/add() iteration fails, the
\* candidate allocated in that iteration is freed before the next iteration,
\* was never installed in the slot, was not read by any get()/read() of any
\* thread, and the old allocation is not freed by that iteration.
C32_FailedCandidateDiscarded ==
    [][FailedCandidateApart /\ FailedCandidateUnseen /\ FailedCandidateFreed]_vars

\* a compare-exchange fails only when the slot no longer holds the pointer the
\* iteration loaded
CasFailsOnlyOnChange ==
    \A t \in ATh : (apc[t] = "cas_exchange" /\ apc'[t] = "cas_free_new") =>
        atomic_data # frame[t].ptr

\* the swap of set() installs the new Box whatever the slot holds, and the
\* call goes on to free the old one and return: it never goes back
SetSwapsOnce ==
    \A t \in ATh :
        /\ (apc[t] = "set_swap" /\ apc'[t] # apc[t]) =>
               (apc'[t] = "set_free" /\ atomic_data' = frame[t].new_ptr)
        /\ (apc[t] = "set_free" /\ apc'[t] # apc[t]) => apc'[t] = "idle"

\* C33: a compare-exchange of increment()/add() fails only if the slot was
\* changed since the iteration's load; with finitely many calls and a fair
\* scheduler every increment(), add() and set() call eventually returns; set()
\* returns after a single swap, with no retry.
C33_CasLoopProgress ==
    /\ [][CasFailsOnlyOnChange /\ SetSwapsOnce]_vars
    /\ \A t \in ATh : (apc[t] # "idle") ~> (apc[t] = "idle")

\* the compare-exchange of a thread has failed because a call of another thread,
\* which has returned since, changed the slot; the thread is about to go round
C33_RetryPending ==
    \E t \in ATh :
        /\ apc[t] = "cas_load"
        /\ \A u \in ATh \ {t} : apc[u] = "idle" /\ ops_left[u] < AtomicOps

InClosureCall(t) ==
    /\ apc'[t] # apc[t]
    /\ apc[t] \in {"closure_deref", "closure_store"} \/ apc'[t] = "closure_deref"

\* C35: update(f) and write(f) of ArcThreadShare apply f to the pointee in
\* place: no step of theirs allocates, frees or stores to the pointer slot, and
\* the slot changes only in the swap of set() and in the compare-exchange of
\* increment()/add().
C35_UpdateInPlace ==
    [][/\ \A t \in ATh : InClosureCall(t) =>
              (atomic_data' = atomic_data /\ allocated' = allocated)
       /\ atomic_data' # atomic_data =>
              \E t \in ATh : apc[t] \in {"set_swap", "cas_exchange"} /\ apc'[t] # apc[t]]_vars

\* one call was made and has returned: the value is 1 and it sits in the Box
\* made by new(), which is still in the slot and is the only allocation
C35_UpdatedInPlace ==
    /\ atomic_data = 1 /\ allocated = {1} /\ heap[1] = 1
    /\ \E t \in ATh :
          /\ apc[t] = "idle" /\ ops_left[t] = AtomicOps - 1
          /\ \A u \in ATh \ {t} : apc[u] = "idle" /\ ops_left[u] = AtomicOps

\* f, called by update()/write() of thread u, ends: the store of |x| *x += 1
EndOfF(u) == apc[u] = "closure_store" /\ apc'[u] = "idle"

\* the store went to memory that is not allocated and changed nothing that a
\* later get() can read
StoreLost(u) == frame[u].ptr \notin allocated /\ heap' = heap

\* the store went to the Box in the slot: a later get() on any clone reads it
StoreVisible(u) ==
    /\ frame[u].ptr = atomic_data
    /\ frame[u].ptr \in allocated
    /\ heap'[atomic_data'] = frame[u].current_value + 1

\* C36, as stated: if a set/increment/add on another clone completes between
\* the pointer load of update(f)/write(f) and the end of f, f executes on an
\* allocation that has been freed and its modification is not visible to any
\* later get(); if no set/increment/add overlaps the call, the modification is
\* visible to every later get().
C36_HazardAsStated ==
    [][\A u \in ATh : EndOfF(u) =>
          /\ "completed" \in overlap[u] => StoreLost(u)
          /\ overlap[u] = {} => StoreVisible(u)]_vars

\* C36, amended: if a set/increment/add on another clone frees the Box that
\* update(f)/write(f) loaded before f ends, and Box::new has not handed out that
\* address again, f's store goes to freed memory and is not visible to any later
\* get(); if no set/increment/add overlaps the call, the modification is visible
\* to every later get().
C36_UpdateHazard ==
    [][\A u \in ATh : EndOfF(u) =>
          /\ ("freed" \in overlap[u] /\ "reused" \notin overlap[u]) => StoreLost(u)
          /\ overlap[u] = {} => StoreVisible(u)]_vars

\* a thread is about to store through a pointer whose Box a set()/increment()/
\* add() of another thread has freed since the thread loaded it
C36_StoreToFreedBox ==
    \E u \in ATh :
        /\ apc[u] = "closure_store"
        /\ "freed" \in overlap[u] /\ "reused" \notin overlap[u]
        /\ frame[u].ptr \notin allocated

\* the thread holds a write guard, or is inside the closure of update()
HoldsWrite(t) ==
    /\ call[t].op \in {"get_mut", "try_get_mut", "update"}
    /\ Statement(t) \in {"closure_read", "closure_write", "unlock"}

\* the thread holds a read guard, or is inside get()
HoldsRead(t) ==
    /\ call[t].op \in {"get_ref", "try_get_ref", "get"}
    /\ Statement(t) \in {"clone", "unlock"}

\* C37: try_get_ref() and try_get_mut() never block; try_get_mut() returns Some
\* only when no other read or write guard is outstanding, try_get_ref() only
\* when no write guard is outstanding; every guard keeps the lock held until it
\* is dropped, so a writer excludes everybody else, the closure-based update()
\* and get() included.
C37_GuardsHoldTheLock ==
    [][/\ \A t \in GThreads :
            /\ Statement(t) \in {"try_read", "try_write"} => ENABLED (TryRead(t) \/ TryWrite(t))
            /\ (Statement(t) = "try_write" /\ tried'[t] = "Some" /\ lpc'[t] # lpc[t]) =>
                   \A u \in GThreads \ {t} : ~HoldsWrite(u) /\ ~HoldsRead(u)
            /\ (Statement(t) = "try_read" /\ tried'[t] = "Some" /\ lpc'[t] # lpc[t]) =>
                   \A u \in GThreads \ {t} : ~HoldsWrite(u)
            /\ HoldsWrite(t) => lock_writer = t
            /\ HoldsRead(t) => t \in lock_readers
       /\ \A t, u \in GThreads : (HoldsWrite(t) /\ u # t) => ~HoldsWrite(u) /\ ~HoldsRead(u)]_vars

\* a thread holds the write guard that its first call, try_get_mut(), returned,
\* and the first call of another thread, a try call made meanwhile, returned None
C37_TryRefusedUnderGuard ==
    \E t, u \in GThreads :
        /\ t # u
        /\ call[t].op = "try_get_mut" /\ Statement(t) = "closure_write"
        /\ calls_left[t] = GuardOps
        /\ tried[u] = "None" /\ calls_left[u] = GuardOps - 1 /\ lpc[u] = 0

C39_LastDropFrees == StrongCount = 0 => allocated = {}

====
